---- MODULE Spec2Model ----
(***************************************************************************)
(* TuneGG: pitch-to-note mapping, the rolling sample window and the note   *)
(* matching state machines of GameSpeed, GamePitch, GameMemory and         *)
(* LessonFlow, with the React state, refs, effects and JavaScript timers   *)
(* they are built from.                                                    *)
(*                                                                         *)
(* One screen is mounted at a time.  Every action is one event of the      *)
(* JavaScript event loop (a button press, an audio chunk, a timer firing)  *)
(* followed by the renders and effects React runs before the next event.   *)
(* Time advances in ticks of TickMs milliseconds; a timer scheduled with a  *)
(* delay d fires Ticks(d) ticks later, and time does not pass a due timer.  *)
(*                                                                         *)
(* A frequency is [pos |-> TRUE, v |-> c, ulp |-> u]: the double whose       *)
(* offset from A4, 12*log2(f/440), is u units in the last place away from   *)
(* c/100 semitones (c an integer number of cents, u = 0 or -1), or          *)
(* [pos |-> FALSE, v |-> hz, ulp |-> 0] for an estimator result hz <= 0.    *)
(***************************************************************************)
EXTENDS Integers, Sequences, FiniteSets, TLC

\* ------------------------------------------------------------------ bounds
\* milliseconds per tick of the model clock
TickMs == 500
\* length of a GameSpeed target list (20 in generateTargetNotes)
SpeedLen == 2
\* most timers pending at once
MaxTimers == 3
\* the elapsed time of a note saturates at this many ticks
MaxElapsed == 1
\* capacity of the rolling sample window (BUF_SIZE, 9000 in the source)
BufSize == 2
\* highest GameMemory round played
MaxRound == 3
\* most onAudioBuffer listeners attached at once
MaxListeners == 2
\* most "Start Listening" presses counted for one lesson note
MaxAttempts == 2

\* note names the random generators of the games draw from
GameNames == {"A", "A#"}
\* sample values of an audio chunk
Samples == {1}

\* ------------------------------------------------------- program constants
NOTE_NAMES == <<"C", "C#", "D", "D#", "E", "F", "F#", "G", "G#", "A", "A#", "B">>
SPEED_TOLERANCE == 15
SPEED_COOLDOWN_MS == 1000
SPEED_FEEDBACK_MS == 1500
PITCH_GAME_TOLERANCE == 20
PITCH_GAME_LENGTH == 5
PITCH_TOLERANCE == 20
TUNING_TOLERANCE == 10
AUTO_STOP_AFTER == 10000
NOTE_TIMEOUT == 10000
NOTE_HOLD_MS == 500
MEMORY_INTERVAL_MS == 1000
INITIAL_SEQUENCE_LENGTH == 3
MAX_SEQUENCE_LENGTH == 8
MEMORY_TIME_BASE == 5000
MEMORY_TIME_DECREASE == 300
MIN_MEMORY_TIME == 2000
LESSON_TOLERANCE == 30

Undefined == [name |-> "undefined"]
NoPitch == [pos |-> FALSE, v |-> -1, ulp |-> 0]

\* a delay of ms milliseconds, in ticks (rounded up)
Ticks(ms) == (ms + TickMs - 1) \div TickMs

Abs(x) == IF x < 0 THEN -x ELSE x
Max(a, b) == IF a >= b THEN a ELSE b
Min(a, b) == IF a <= b THEN a ELSE b

\* JavaScript's % (the sign of the dividend)
JsRem(a, b) == IF a >= 0 THEN a % b ELSE -((-a) % b)
\* Math.round(num/den) for den > 0: halves round towards +Infinity
JsRound(num, den) == (2 * num + den) \div (2 * den)

\* ----------------------------------------------------------- note mapping
\* semitonesFromC4 = Math.round(12*log2(f/440) + 9): the sum is rounded to
\* the nearest double, which for an offset below 4 semitones in magnitude
\* and a sum of 8 or more absorbs a last place of the offset (f.ulp)
SemitonesFromC4(f) == JsRound(f.v + 900, 100)

\* noteUtils / GamePitch / LessonFlow: name only
getNoteFromFreq(f) ==
  IF ~f.pos THEN Undefined
  ELSE LET s == SemitonesFromC4(f)
           noteIndex == JsRem(JsRem(s, 12) + 12, 12)
       IN [name |-> NOTE_NAMES[noteIndex + 1]]

\* GameMemory: name and octave
getNoteFromFreqOct(f) ==
  IF ~f.pos THEN Undefined
  ELSE LET s == SemitonesFromC4(f)
           noteIndex == JsRem(JsRem(s, 12) + 12, 12)
       IN [name |-> NOTE_NAMES[noteIndex + 1], octave |-> (s + 48) \div 12]

\* Math.round(12*log2(f/440)): exact, so an offset one place below a half
\* rounds down
RoundedSemitonesFromA4(f) ==
  IF f.ulp < 0 /\ (f.v + 50) % 100 = 0
  THEN JsRound(f.v, 100) - 1
  ELSE JsRound(f.v, 100)

\* a cents function without the guard on the frequency
getNoteCentsUnguarded(f) == f.v - 100 * RoundedSemitonesFromA4(f)

\* cents from the semitone nearest to f, by Math.round of the offset from A4;
\* the final Math.round(cents) drops the last place
getNoteCents(f) ==
  IF ~f.pos THEN 0
  ELSE f.v - 100 * RoundedSemitonesFromA4(f)

\* the frequency of a note, as a distance from A4 in cents
IndexOf(name) == CHOOSE i \in 1..12 : NOTE_NAMES[i] = name
getFreqFromNote(note) ==
  [pos |-> TRUE,
   v |-> 100 * ((note.octave - 4) * 12 + (IndexOf(note.name) - IndexOf("A"))),
   ulp |-> 0]

\* an octave taken by truncating division instead of Math.floor
getNoteFromFreqTruncating(f) ==
  IF ~f.pos THEN Undefined
  ELSE LET s == SemitonesFromC4(f)
           noteIndex == JsRem(JsRem(s, 12) + 12, 12)
       IN [name |-> NOTE_NAMES[noteIndex + 1], octave |-> 4 + (s - JsRem(s, 12)) \div 12]

\* GamePitch (octave-resolving version): name and octave
getNoteFromFreqGamePitch(f) ==
  IF ~f.pos THEN Undefined
  ELSE LET s == SemitonesFromC4(f)
           noteIndex == JsRem(JsRem(s, 12) + 12, 12)
       IN [name |-> NOTE_NAMES[noteIndex + 1], octave |-> 4 + (s \div 12)]

\* GamePitch (octave-resolving version): cents from the frequency of the
\* note getNoteFromFreq reports
getNoteCentsGamePitch(f) ==
  IF ~f.pos THEN 0
  ELSE LET note == getNoteFromFreqGamePitch(f)
       IN IF note = Undefined THEN 0 ELSE f.v - getFreqFromNote(note).v

isValidPitch(pitch, note) == pitch.pos /\ note # Undefined

\* --------------------------------------------------------- sample window
\* [...prevBuffer.slice(len), ...buffer.samples]
RECURSIVE Drop(_, _)
Drop(s, n) == IF n <= 0 \/ s = <<>> THEN s ELSE Drop(Tail(s), n - 1)
\* an updater that evicts the newest samples instead of the oldest
AppendKeepingOldest(prevBuffer, samples) ==
  SubSeq(prevBuffer, 1, Len(prevBuffer) - Len(samples)) \o samples
AppendSamples(prevBuffer, samples) == Drop(prevBuffer, Len(samples)) \o samples

ZeroBuffer == [i \in 1..BufSize |-> 0]

\* chunks the microphone stream delivers: every length up to BufSize + 1
RECURSIVE SeqsOfLen(_, _)
SeqsOfLen(S, n) ==
  IF n = 0 THEN {<<>>}
  ELSE {Append(s, x) : s \in SeqsOfLen(S, n - 1), x \in S}
Chunks == UNION {SeqsOfLen(Samples, n) : n \in 0..(BufSize + 1)}
\* the chunk the games are fed: one window of sound
GameChunk == [i \in 1..BufSize |-> 1]

\* results of the external estimator DSPModule.pitch on a window: no pitch
\* on silence, otherwise any of the pitches heard
IsSilent(buffer) == \A i \in 1..Len(buffer) : buffer[i] = 0
EstimatorResults(buffer, heard) == IF IsSilent(buffer) THEN {NoPitch} ELSE heard

\* pitches around the notes in names/octaves: at the tolerance and just beyond
PitchesAround(names, octaves, tol) ==
  {NoPitch} \cup
  {[pos |-> TRUE, v |-> getFreqFromNote([name |-> n, octave |-> o]).v + d,
    ulp |-> 0] :
     n \in names, o \in octaves, d \in {tol, -(tol + 1)}}

\* ------------------------------------------------------------------ timers
\* a pending setTimeout/setInterval: kind, ticks left, whether the ref that
\* stored its id still holds it, and the values its closure captured;
\* step records the currentNoteIndex at which it was scheduled and preReset
\* that resetGame has run since
Timer(kind, ms, tracked, cap, step) ==
  [kind |-> kind, rem |-> Ticks(ms), tracked |-> tracked, cap |-> cap,
   step |-> step, preReset |-> FALSE]

\* clearTimeout(ref.current) for the ref of this kind
ClearTracked(ts, kind) ==
  SelectSeq(ts, LAMBDA t : ~(t.kind = kind /\ t.tracked))
\* ref.current = <another id or null>: the old timer, if pending, is orphaned
Untrack(ts, kind) ==
  [i \in 1..Len(ts) |->
     IF ts[i].kind = kind THEN [ts[i] EXCEPT !.tracked = FALSE] ELSE ts[i]]
RemoveAt(ts, i) == [j \in 1..(Len(ts) - 1) |-> IF j < i THEN ts[j] ELSE ts[j + 1]]
HasTimer(ts, kind) == \E i \in 1..Len(ts) : ts[i].kind = kind
\* the timers that outlive a resetGame
SurviveReset(ts) == [i \in 1..Len(ts) |-> [ts[i] EXCEPT !.preReset = TRUE]]

\* ------------------------------------------------------------------- state
VARIABLES
  screen,   \* the mounted screen
  mic,      \* MicrophoneStreamModule: recording flag, attached listeners
  timers,   \* pending JavaScript timers, in scheduling order
  pd,       \* usePitchDetection state and refs (GameSpeed)
  speed,    \* GameSpeed state and refs
  memory,   \* GameMemory state
  pitchGame, \* GamePitch state
  lesson,   \* LessonFlow route parameters and state
  calc,     \* a call of a note utility: the function, its argument, its result
  backend   \* the PocketBase collections and the service calls in flight

vars == <<screen, mic, timers, pd, speed, memory, pitchGame, lesson, calc, backend>>

\* ------------------------------------------------- microphone stream module
MicInit == [recording |-> FALSE, listeners |-> 0]
MicStart(m) == [m EXCEPT !.recording = TRUE]
MicStop(m) == [m EXCEPT !.recording = FALSE]
MicAddListener(m) == [m EXCEPT !.listeners = @ + 1]
MicRemoveListener(m) == [m EXCEPT !.listeners = Max(@ - 1, 0)]

\* ------------------------------------------------------- usePitchDetection
PdInit ==
  [micAccess |-> "pending", isRecording |-> FALSE, audioBuffer |-> ZeroBuffer,
   pitch |-> NoPitch, note |-> Undefined, cents |-> 0,
   subscriptionRef |-> "null", autoStopTimeoutRef |-> "null"]

\* the onAudioBuffer listener, once per attached listener
RECURSIVE AppendTimes(_, _, _)
AppendTimes(buffer, samples, n) ==
  IF n = 0 THEN buffer
  ELSE AppendTimes(AppendSamples(buffer, samples), samples, n - 1)

\* the "Get pitch of the audio" effect with the estimator's result f
hookPitchEffect(h, f) ==
  IF Len(h.audioBuffer) = 0 \/ h.micAccess # "granted" \/ ~h.isRecording THEN h
  ELSE [h EXCEPT !.pitch = f, !.note = getNoteFromFreq(f),
                 !.cents = getNoteCents(f)]

\* the detection state of h2 carried into h: the state updates of a pitch
\* effect that ran in the same pass as other effects
hookWithDetection(h, h2) ==
  [h EXCEPT !.pitch = h2.pitch, !.note = h2.note, !.cents = h2.cents]

\* startRecording of the render whose isRecording/micAccess are cl's, with
\* the autoStopAfter option (0 when absent); the auto-stop callback calls the
\* stopRecording of the same render
hookStartRecording(w, cl, autoStopAfter) ==
  IF ~cl.isRecording /\ cl.micAccess = "granted"
  THEN LET w1 == [w EXCEPT !.mic = MicAddListener(MicStart(@)),
                           !.pd.isRecording = TRUE,
                           !.pd.subscriptionRef = "set"]
       IN IF autoStopAfter # 0
          THEN [w1 EXCEPT !.pd.autoStopTimeoutRef = "set",
                          !.timers = Append(Untrack(@, "autoStop"),
                                            Timer("autoStop", autoStopAfter, TRUE,
                                                  [isRecording |-> cl.isRecording],
                                                  0))]
          ELSE w1
  ELSE w

\* stopRecording of the render whose isRecording is cl's
hookStopRecording(w, cl) ==
  IF cl.isRecording
  THEN [w EXCEPT !.mic = MicStop(IF w.pd.subscriptionRef # "null"
                                 THEN MicRemoveListener(@) ELSE @),
                 !.pd.subscriptionRef = "null",
                 !.timers = IF w.pd.autoStopTimeoutRef # "null"
                            THEN ClearTracked(@, "autoStop") ELSE @,
                 !.pd.autoStopTimeoutRef = "null",
                 !.pd.isRecording = FALSE]
  ELSE w

\* --------------------------------------------------------------- GameSpeed
SpeedInit ==
  [gameState |-> "setup", currentNoteIndex |-> 0, targetNotes |-> <<>>,
   gameStats |-> "null", noteTimes |-> <<>>, feedback |-> "",
   elapsed |-> 0,               \* now - currentNoteStartTime, saturating
   lastValidNoteRef |-> "null", detectionTimeoutRef |-> "null"]

SpeedHeard == PitchesAround(GameNames, {4}, SPEED_TOLERANCE)

\* target lists generateTargetNotes can draw: one note repeated, and two
\* notes alternating
SpeedTargetLists ==
  {[i \in 1..SpeedLen |-> "A"],
   [i \in 1..SpeedLen |-> IF i % 2 = 1 THEN "A" ELSE "A#"]}

RECURSIVE SumSeq(_)
SumSeq(s) == IF s = <<>> THEN 0 ELSE Head(s) + SumSeq(Tail(s))
SeqMin(s) == CHOOSE x \in {s[i] : i \in 1..Len(s)} : \A i \in 1..Len(s) : x <= s[i]
SeqMax(s) == CHOOSE x \in {s[i] : i \in 1..Len(s)} : \A i \in 1..Len(s) : x >= s[i]

finishGame(w, finalNoteTimes) ==
  LET w1 == hookStopRecording(w, w.pd)
  IN [w1 EXCEPT !.c.gameStats = [count |-> Len(finalNoteTimes),
                                 sum |-> SumSeq(finalNoteTimes),
                                 fastestNote |-> SeqMin(finalNoteTimes),
                                 slowestNote |-> SeqMax(finalNoteTimes)],
                !.c.gameState = "finished",
                !.c.feedback = "completed"]

\* the next-note setTimeout of the match effect
SpeedScheduleAdvance(ts, idx) ==
  Append(ts, Timer("advance", SPEED_FEEDBACK_MS, FALSE,
                   [currentNoteIndex |-> idx], idx))

\* the acceptance test of the match effect
SpeedAccepts(note, cents, targetNote) ==
  note.name = targetNote /\ Abs(cents) <= SPEED_TOLERANCE

\* the duplicate-detection guard of the match effect
SpeedNotDuplicate(c, targetNote) ==
  c.lastValidNoteRef # targetNote \/ c.detectionTimeoutRef = "null"

\* "Check if the played note matches the target note"
SpeedEffect(w) ==
  LET c == w.c
      h == w.pd
  IN IF c.gameState # "playing" \/ ~isValidPitch(h.pitch, h.note) THEN w
     ELSE IF c.currentNoteIndex >= Len(c.targetNotes) THEN w
     ELSE LET targetNote == c.targetNotes[c.currentNoteIndex + 1] IN
       IF SpeedAccepts(h.note, h.cents, targetNote)
       THEN IF SpeedNotDuplicate(c, targetNote)
            THEN LET ts1 == IF c.detectionTimeoutRef # "null"
                            THEN ClearTracked(w.timers, "cooldown") ELSE w.timers
                     ts2 == Append(ts1, Timer("cooldown", SPEED_COOLDOWN_MS, TRUE, <<>>,
                                             c.currentNoteIndex))
                     newNoteTimes == Append(c.noteTimes, c.elapsed)
                     w1 == [w EXCEPT !.timers = ts2,
                                     !.c.lastValidNoteRef = targetNote,
                                     !.c.detectionTimeoutRef = "set",
                                     !.c.noteTimes = newNoteTimes,
                                     !.c.feedback = "correct"]
                 IN IF c.currentNoteIndex + 1 >= Len(c.targetNotes)
                    THEN finishGame(w1, newNoteTimes)
                    ELSE [w1 EXCEPT !.timers = SpeedScheduleAdvance(@, c.currentNoteIndex)]
            ELSE w
       ELSE IF h.note.name # targetNote
            THEN [w EXCEPT !.c.feedback = "wrong note"]
            ELSE [w EXCEPT !.c.feedback = "tune it better"]

\* the state the match effect depends on
SpeedDeps(w) ==
  <<w.pd.pitch, w.pd.note, w.pd.cents, w.c.gameState, w.c.currentNoteIndex,
    w.c.targetNotes, w.c.noteTimes>>

\* React re-runs the effect until a run leaves its dependencies unchanged
RECURSIVE SpeedSettle(_)
SpeedSettle(w) ==
  LET w1 == SpeedEffect(w)
  IN IF SpeedDeps(w1) = SpeedDeps(w) THEN w1 ELSE SpeedSettle(w1)

SpeedWorld == [c |-> speed, pd |-> pd, timers |-> timers, mic |-> mic]
SpeedCommit(w) ==
  /\ Len(w.timers) <= MaxTimers
  /\ speed' = w.c
  /\ pd' = w.pd
  /\ timers' = w.timers
  /\ mic' = w.mic
  /\ UNCHANGED <<backend, calc, screen, memory, pitchGame, lesson>>

\* requestRecordingPermissionsAsync resolves
SpeedPermission(granted) ==
  /\ screen = "GameSpeed"
  /\ pd.micAccess = "pending"
  /\ pd' = [pd EXCEPT !.micAccess = IF granted THEN "granted" ELSE "denied"]
  /\ UNCHANGED <<backend, calc, screen, mic, timers, speed, memory, pitchGame, lesson>>

\* "Start Game"; f is the estimator's result on the window as it stands
SpeedStartGame(notes, f) ==
  /\ screen = "GameSpeed"
  /\ speed.gameState = "setup"
  /\ pd.micAccess = "granted"
  /\ f \in EstimatorResults(pd.audioBuffer, SpeedHeard)
  /\ LET w0 == SpeedWorld
         w1 == [w0 EXCEPT !.c.targetNotes = notes,
                          !.c.currentNoteIndex = 0,
                          !.c.noteTimes = <<>>,
                          !.c.gameStats = "null",
                          !.c.gameState = "playing",
                          !.c.feedback = "get ready",
                          !.c.elapsed = 0]
         w2 == hookStartRecording(w1, pd, 0)
         \* both effects run on the render of the press: the match effect
         \* sees the detection of the previous session
         w3 == SpeedSettle(w2)
         w4 == [w3 EXCEPT !.pd = hookWithDetection(@, hookPitchEffect(w2.pd, f))]
     IN SpeedCommit(SpeedSettle(w4))

\* an audio chunk reaches the onAudioBuffer listener
SpeedAudioBuffer(f) ==
  /\ screen = "GameSpeed"
  /\ mic.recording /\ mic.listeners > 0
  /\ LET buf == AppendTimes(pd.audioBuffer, GameChunk, mic.listeners)
     IN /\ f \in EstimatorResults(buf, SpeedHeard)
        /\ LET w1 == [SpeedWorld EXCEPT !.pd.audioBuffer = buf]
               w2 == [w1 EXCEPT !.pd = hookPitchEffect(@, f)]
           IN SpeedCommit(SpeedSettle(w2))

\* the 1 s cooldown timer fires
SpeedCooldownFire(i) ==
  /\ screen = "GameSpeed"
  /\ timers[i].kind = "cooldown" /\ timers[i].rem = 0
  /\ timers' = RemoveAt(timers, i)
  /\ speed' = [speed EXCEPT !.lastValidNoteRef = "null",
                            !.detectionTimeoutRef = "null"]
  /\ UNCHANGED <<backend, calc, screen, mic, pd, memory, pitchGame, lesson>>

\* the callback of the next-note timer
SpeedAdvance(c, cap) ==
  [c EXCEPT !.currentNoteIndex = cap.currentNoteIndex + 1,
            !.elapsed = 0,
            !.feedback = ""]

\* a 1.5 s next-note timer fires
SpeedAdvanceFire(i) ==
  /\ screen = "GameSpeed"
  /\ timers[i].kind = "advance" /\ timers[i].rem = 0
  /\ LET w1 == [SpeedWorld EXCEPT !.timers = RemoveAt(timers, i),
                                  !.c = SpeedAdvance(@, timers[i].cap)]
     IN SpeedCommit(SpeedSettle(w1))

\* "Stop Game" / "Play Again"
SpeedResetGame ==
  /\ screen = "GameSpeed"
  /\ speed.gameState \in {"playing", "finished"}
  /\ LET w1 == [SpeedWorld EXCEPT
                  !.c.gameState = "setup",
                  !.c.currentNoteIndex = 0,
                  !.c.targetNotes = <<>>,
                  !.c.gameStats = "null",
                  !.c.noteTimes = <<>>,
                  !.c.feedback = "",
                  !.c.lastValidNoteRef = "null",
                  !.c.detectionTimeoutRef = "null",
                  !.timers = SurviveReset(IF speed.detectionTimeoutRef # "null"
                                          THEN ClearTracked(@, "cooldown") ELSE @)]
     IN SpeedCommit(SpeedSettle(hookStopRecording(w1, pd)))

\* -------------------------------------------------------------- GameMemory
MemoryInit ==
  [micAccess |-> "pending", isRecording |-> FALSE, audioBuffer |-> ZeroBuffer,
   pitch |-> NoPitch, detectedNote |-> Undefined, cents |-> 0,
   gamePhase |-> "setup", currentRound |-> 1,
   currentSequenceLength |-> INITIAL_SEQUENCE_LENGTH, melodySequence |-> <<>>,
   currentNoteIndex |-> 0, playerSequence |-> <<>>, score |-> 0,
   totalScore |-> 0, memoryTimeLeft |-> 0, xpAwarded |-> FALSE,
   memorized |-> 0,             \* ticks spent in the memorize phase
   perfectBonus |-> 0,          \* the bonus in the round's awardXP call
   awardXPCalls |-> 0,          \* awardXP calls made for the round
   timeUpAlert |-> FALSE,       \* the "Time's up!" alert was shown this round
   rejected |-> FALSE]          \* a chunk's detection failed the step's test

\* GAME_NOTES the melodies are drawn from, and the pitches the player sounds
MemoryNotes == {[name |-> n, octave |-> 4] : n \in GameNames}
MemoryHeard == PitchesAround(GameNames, {4}, PITCH_TOLERANCE)
                 \cup PitchesAround({"A"}, {5}, PITCH_TOLERANCE)

\* a matcher that compares the note name and the cents but not the octave
notesMatchAnyOctave(detectedNote, targetNote, cents) ==
  /\ detectedNote # Undefined
  /\ detectedNote.name = targetNote.name
  /\ Abs(cents) <= PITCH_TOLERANCE

notesMatch(detectedNote, targetNote, cents) ==
  /\ detectedNote # Undefined
  /\ detectedNote.name = targetNote.name
  /\ detectedNote.octave = targetNote.octave
  /\ Abs(cents) <= PITCH_TOLERANCE

\* milliseconds
getMemoryTime(round) ==
  Max(MEMORY_TIME_BASE - (round - 1) * MEMORY_TIME_DECREASE, MIN_MEMORY_TIME)

getSequenceLength(round) ==
  Min(INITIAL_SEQUENCE_LENGTH + ((round - 1) \div 2), MAX_SEQUENCE_LENGTH)

\* the "Get pitch of the audio" effect with the estimator's result f
MemoryPitchEffect(c, f) ==
  IF Len(c.audioBuffer) = 0 \/ c.micAccess # "granted" \/ ~c.isRecording THEN c
  ELSE [c EXCEPT !.pitch = f, !.detectedNote = getNoteFromFreqOct(f),
                 !.cents = getNoteCents(f)]

\* the detection state of c2 carried into c: the state updates of a pitch
\* effect that ran in the same pass as other effects
WithDetection(c, c2) ==
  [c EXCEPT !.pitch = c2.pitch, !.detectedNote = c2.detectedNote, !.cents = c2.cents]

\* stopRecording of a render: cl.isRecording is the isRecording it closed
\* over, cl.subscriber whether its startRecording function carries .subscriber
MemoryStopRecording(w, cl) ==
  LET w1 == IF cl.isRecording
            THEN [w EXCEPT !.mic = MicStop(IF cl.subscriber
                                           THEN MicRemoveListener(@) ELSE @),
                           !.c.isRecording = FALSE]
            ELSE w
  IN [w1 EXCEPT !.timers = ClearTracked(@, "noteTimeout")]

\* the step timeout set by startRecording and by the hold callback
MemoryStepTimeout(ts, cl, step) ==
  Append(Untrack(ts, "noteTimeout"), Timer("noteTimeout", NOTE_TIMEOUT, TRUE, cl, step))

\* startRecording of a render with micAccess and isRecording as in cl
MemoryStartRecording(w, cl) ==
  IF cl.micAccess = "granted"
  THEN [w EXCEPT !.mic = MicAddListener(MicStart(@)),
                 !.c.isRecording = TRUE,
                 !.timers = MemoryStepTimeout(@, [isRecording |-> cl.isRecording,
                                                  subscriber |-> TRUE],
                                              w.c.currentNoteIndex)]
  ELSE w

\* what the hold callback closes over
MemoryHoldCapture(c) ==
  [playerSequence |-> c.playerSequence, detectedNote |-> c.detectedNote,
   score |-> c.score, currentNoteIndex |-> c.currentNoteIndex,
   melodySequence |-> c.melodySequence, totalScore |-> c.totalScore,
   xpAwarded |-> c.xpAwarded, currentRound |-> c.currentRound,
   isRecording |-> c.isRecording]

\* a match that leaves the hold timer of an earlier match pending
MemoryOnMatchKeepingHold(ts, c) ==
  Append(ClearTracked(ts, "noteTimeout"),
         Timer("hold", NOTE_HOLD_MS, TRUE, MemoryHoldCapture(c), c.currentNoteIndex))

\* the timers after a matching detection
MemoryOnMatch(ts, c) ==
  Append(ClearTracked(ClearTracked(ts, "hold"), "noteTimeout"),
         Timer("hold", NOTE_HOLD_MS, TRUE, MemoryHoldCapture(c), c.currentNoteIndex))

\* the timers after a detection that does not match
MemoryOnMismatch(ts) == ClearTracked(ts, "hold")

\* a match effect that does not test the game phase
MemoryEffectAnyPhase(w) ==
  LET c == w.c
  IN IF c.detectedNote = Undefined \/ c.currentNoteIndex >= Len(c.melodySequence)
     THEN w
     ELSE IF notesMatch(c.detectedNote, c.melodySequence[c.currentNoteIndex + 1], c.cents)
          THEN [w EXCEPT !.timers = MemoryOnMatch(@, c)]
          ELSE [w EXCEPT !.timers = MemoryOnMismatch(@)]

\* "Check for note matches during recall phase"
MemoryEffect(w) ==
  LET c == w.c
  IN IF \/ c.gamePhase # "recall"
        \/ c.detectedNote = Undefined
        \/ c.currentNoteIndex >= Len(c.melodySequence)
     THEN w
     ELSE IF notesMatch(c.detectedNote, c.melodySequence[c.currentNoteIndex + 1], c.cents)
          THEN [w EXCEPT !.timers = MemoryOnMatch(@, c)]
          ELSE [w EXCEPT !.timers = MemoryOnMismatch(@)]

perfectBonus(score, melodySequence) ==
  IF score + 1 = Len(melodySequence) THEN 10 ELSE 0

\* a freshly analysed chunk whose detection the recall test turns down
MemoryNoteRejected(w) ==
  LET c == w.c
  IN IF /\ c.gamePhase = "recall"
        /\ c.isRecording
        /\ c.detectedNote # Undefined
        /\ c.currentNoteIndex < Len(c.melodySequence)
        /\ ~notesMatch(c.detectedNote, c.melodySequence[c.currentNoteIndex + 1], c.cents)
     THEN [w EXCEPT !.c.rejected = TRUE]
     ELSE w

\* the callback of the hold timer
MemoryHoldDone(w, cap) ==
  LET w1 == [w EXCEPT !.c.playerSequence = Append(cap.playerSequence, cap.detectedNote),
                      !.c.score = cap.score + 1]
      cl == [isRecording |-> cap.isRecording, subscriber |-> FALSE]
  IN IF cap.currentNoteIndex + 1 >= Len(cap.melodySequence)
     THEN LET w2 == [w1 EXCEPT !.c.totalScore = cap.totalScore + cap.score + 1,
                               !.c.gamePhase = "roundComplete"]
              w3 == MemoryStopRecording(w2, cl)
          IN IF ~cap.xpAwarded
             THEN [w3 EXCEPT !.c.xpAwarded = TRUE,
                             !.c.awardXPCalls = @ + 1,
                             !.c.perfectBonus =
                               perfectBonus(cap.score, cap.melodySequence)]
             ELSE w3
     ELSE [w1 EXCEPT !.c.currentNoteIndex = cap.currentNoteIndex + 1,
                     !.timers = MemoryStepTimeout(@, cl, cap.currentNoteIndex + 1)]

\* the callback of a step timeout
MemoryTimedOut(w, cl) ==
  MemoryStopRecording([w EXCEPT !.c.gamePhase = "failed",
                                !.c.timeUpAlert = TRUE], cl)

\* startGame of a render whose currentRound, micAccess, isRecording are cl's
MemoryBeginRound(w, cl, sequence) ==
  [w EXCEPT !.c.melodySequence = sequence,
            !.c.currentSequenceLength = getSequenceLength(cl.currentRound),
            !.c.currentNoteIndex = 0,
            !.c.playerSequence = <<>>,
            !.c.score = 0,
            !.c.xpAwarded = FALSE,
            !.c.perfectBonus = 0,
            !.c.awardXPCalls = 0,
            !.c.timeUpAlert = FALSE,
            !.c.rejected = FALSE,
            !.c.memoryTimeLeft = getMemoryTime(cl.currentRound),
            !.c.gamePhase = "memorize",
            !.c.memorized = 0,
            !.timers = Append(Untrack(@, "memory"),
                              Timer("memory", MEMORY_INTERVAL_MS, TRUE,
                                    [micAccess |-> cl.micAccess,
                                     isRecording |-> cl.isRecording], 0))]

MemoryWorld == [c |-> memory, timers |-> timers, mic |-> mic]
MemoryCommit(w) ==
  /\ Len(w.timers) <= MaxTimers
  /\ w.mic.listeners <= MaxListeners
  /\ memory' = w.c
  /\ timers' = w.timers
  /\ mic' = w.mic
  /\ UNCHANGED <<backend, calc, screen, pd, speed, pitchGame, lesson>>

MemoryPermission(granted) ==
  /\ screen = "GameMemory"
  /\ memory.micAccess = "pending"
  /\ memory' = [memory EXCEPT !.micAccess = IF granted THEN "granted" ELSE "denied"]
  /\ UNCHANGED <<backend, calc, screen, mic, timers, pd, speed, pitchGame, lesson>>

\* "Start Game" / "Continue"
MemoryStartGame(sequence) ==
  /\ screen = "GameMemory"
  /\ memory.gamePhase = "setup"
  /\ memory.micAccess = "granted"
  /\ Len(sequence) = getSequenceLength(memory.currentRound)
  /\ MemoryCommit(MemoryEffect(MemoryBeginRound(MemoryWorld, memory, sequence)))

\* "Next Round": startGame runs with the currentRound of the pressed render
MemoryNextRound(sequence) ==
  /\ screen = "GameMemory"
  /\ memory.gamePhase = "roundComplete"
  /\ memory.micAccess = "granted"
  /\ memory.currentRound < MaxRound
  /\ Len(sequence) = getSequenceLength(memory.currentRound)
  /\ LET w1 == [MemoryWorld EXCEPT !.c.currentRound = memory.currentRound + 1]
     IN MemoryCommit(MemoryEffect(MemoryBeginRound(w1, memory, sequence)))

\* the 1 s memorize interval fires; f is the estimator's result on the window
MemoryIntervalFire(i, f) ==
  /\ screen = "GameMemory"
  /\ timers[i].kind = "memory" /\ timers[i].rem = 0
  /\ f \in EstimatorResults(memory.audioBuffer, MemoryHeard)
  /\ LET rearmed == [timers EXCEPT ![i].rem = Ticks(MEMORY_INTERVAL_MS)]
     IN IF memory.memoryTimeLeft <= 1000
        THEN LET w1 == [MemoryWorld EXCEPT !.timers = ClearTracked(rearmed, "memory"),
                                           !.c.gamePhase = "recall",
                                           !.c.memoryTimeLeft = 0]
                 w2 == MemoryStartRecording(w1, timers[i].cap)
                 \* both effects run on the same render: the match effect
                 \* sees the detection of the previous session
                 w3 == MemoryEffect(w2)
                 w4 == [w3 EXCEPT !.c = WithDetection(@, MemoryPitchEffect(w2.c, f))]
             IN MemoryCommit(MemoryEffect(w4))
        ELSE /\ f = NoPitch
             /\ MemoryCommit([MemoryWorld EXCEPT !.timers = rearmed,
                                                 !.c.memoryTimeLeft = @ - 1000])

\* an audio chunk reaches the onAudioBuffer listeners
MemoryAudioBuffer(f) ==
  /\ screen = "GameMemory"
  /\ mic.recording /\ mic.listeners > 0
  /\ LET buf == AppendTimes(memory.audioBuffer, GameChunk, mic.listeners)
     IN /\ f \in EstimatorResults(buf, MemoryHeard)
        /\ LET w1 == [MemoryWorld EXCEPT !.c.audioBuffer = buf]
               w2 == MemoryNoteRejected([w1 EXCEPT !.c = MemoryPitchEffect(@, f)])
           IN MemoryCommit(MemoryEffect(w2))

\* the 500 ms hold timer fires
MemoryHoldFire(i) ==
  /\ screen = "GameMemory"
  /\ timers[i].kind = "hold" /\ timers[i].rem = 0
  /\ LET w1 == [MemoryWorld EXCEPT !.timers = RemoveAt(timers, i)]
     IN MemoryCommit(MemoryEffect(MemoryHoldDone(w1, timers[i].cap)))

\* a 10 s step timeout fires
MemoryTimeoutFire(i) ==
  /\ screen = "GameMemory"
  /\ timers[i].kind = "noteTimeout" /\ timers[i].rem = 0
  /\ LET w1 == [MemoryWorld EXCEPT !.timers = RemoveAt(timers, i)]
     IN MemoryCommit(MemoryEffect(MemoryTimedOut(w1, timers[i].cap)))

\* "Stop Game" / "End Game" / "Try Again" / "Play Again"
MemoryResetGame ==
  /\ screen = "GameMemory"
  /\ memory.gamePhase \in {"recall", "roundComplete", "failed", "completed"}
  /\ memory.micAccess = "granted"
  /\ LET w1 == MemoryStopRecording(MemoryWorld,
                                   [isRecording |-> memory.isRecording,
                                    subscriber |-> FALSE])
         w2 == [w1 EXCEPT !.timers = SurviveReset(ClearTracked(ClearTracked(
                                         ClearTracked(@, "memory"), "hold"),
                                         "noteTimeout")),
                          !.c.gamePhase = "setup",
                          !.c.currentRound = 1,
                          !.c.currentSequenceLength = INITIAL_SEQUENCE_LENGTH,
                          !.c.melodySequence = <<>>,
                          !.c.playerSequence = <<>>,
                          !.c.currentNoteIndex = 0,
                          !.c.score = 0,
                          !.c.totalScore = 0,
                          !.c.xpAwarded = FALSE,
                          !.c.perfectBonus = 0,
                          !.c.awardXPCalls = 0,
                          !.c.timeUpAlert = FALSE,
                          !.c.rejected = FALSE,
                          !.c.memoryTimeLeft = 0]
     IN MemoryCommit(MemoryEffect(w2))

\* "Back": the screen is popped; the component has no cleanup effect, so its
\* timers, the recording and the listener stay as they are
MemoryUnmount ==
  /\ screen = "GameMemory"
  /\ screen' = "unmounted"
  /\ UNCHANGED <<backend, calc, mic, timers, pd, speed, memory, pitchGame, lesson>>

\* what a timer callback of the popped screen still does: the state setters
\* are dropped, the native calls, the new timers and the alert are not
MemoryCommitUnmounted(w) ==
  /\ Len(w.timers) <= MaxTimers
  /\ w.mic.listeners <= MaxListeners
  /\ timers' = w.timers
  /\ mic' = w.mic
  /\ memory' = [memory EXCEPT !.timeUpAlert = w.c.timeUpAlert,
                              !.awardXPCalls = w.c.awardXPCalls]
  /\ UNCHANGED <<backend, calc, screen, pd, speed, pitchGame, lesson>>

\* the memorize interval of the popped screen fires; evaluated tells whether
\* React still calls the updater passed to setMemoryTimeLeft, which it does
\* with the memoryTimeLeft of the last render
MemoryIntervalFireUnmounted(i, evaluated) ==
  /\ screen = "unmounted"
  /\ timers[i].kind = "memory" /\ timers[i].rem = 0
  /\ LET rearmed == [timers EXCEPT ![i].rem = Ticks(MEMORY_INTERVAL_MS)]
     IN IF evaluated /\ memory.memoryTimeLeft <= 1000
        THEN MemoryCommitUnmounted(
               MemoryStartRecording(
                 [MemoryWorld EXCEPT !.timers = ClearTracked(rearmed, "memory")],
                 timers[i].cap))
        ELSE MemoryCommitUnmounted([MemoryWorld EXCEPT !.timers = rearmed])

MemoryHoldFireUnmounted(i) ==
  /\ screen = "unmounted"
  /\ timers[i].kind = "hold" /\ timers[i].rem = 0
  /\ MemoryCommitUnmounted(
       MemoryHoldDone([MemoryWorld EXCEPT !.timers = RemoveAt(timers, i)],
                      timers[i].cap))

MemoryTimeoutFireUnmounted(i) ==
  /\ screen = "unmounted"
  /\ timers[i].kind = "noteTimeout" /\ timers[i].rem = 0
  /\ MemoryCommitUnmounted(
       MemoryTimedOut([MemoryWorld EXCEPT !.timers = RemoveAt(timers, i)],
                      timers[i].cap))


\* --------------------------------------------------------------- GamePitch
PitchGameInit ==
  [micAccess |-> "pending", isRecording |-> FALSE, audioBuffer |-> ZeroBuffer,
   pitch |-> NoPitch, detectedNote |-> Undefined, cents |-> 0,
   gameState |-> "ready", targetNotes |-> <<>>, currentNoteIndex |-> 0,
   score |-> 0, matchedNotes |-> <<>>, xpAwarded |-> FALSE,
   awardXPCalls |-> 0,          \* awardXP calls made for the game
   rejected |-> FALSE]          \* a chunk's detection failed the step's test

PitchGameHeard == PitchesAround(GameNames, {4}, PITCH_GAME_TOLERANCE)

\* the "Get pitch of the audio" effect of GamePitch and LessonFlow
PitchEffect(c, f) ==
  IF Len(c.audioBuffer) = 0 \/ c.micAccess # "granted" \/ ~c.isRecording THEN c
  ELSE [c EXCEPT !.pitch = f, !.detectedNote = getNoteFromFreq(f),
                 !.cents = getNoteCents(f)]

StartRecordingUnguarded(w, cl) ==
  [w EXCEPT !.mic = MicAddListener(MicStart(@)), !.c.isRecording = TRUE]

\* startRecording of GamePitch and LessonFlow, of a render with cl's micAccess
StartRecording(w, cl) ==
  IF cl.micAccess = "granted"
  THEN [w EXCEPT !.mic = MicAddListener(MicStart(@)), !.c.isRecording = TRUE]
  ELSE w

PitchGameStopRecording(w, cl) ==
  IF cl.isRecording
  THEN [w EXCEPT !.mic = MicStop(IF cl.subscriber THEN MicRemoveListener(@) ELSE @),
                 !.c.isRecording = FALSE]
  ELSE w

\* the acceptance test of the match effect
PitchGameAccepts(detectedNote, cents, targetNote) ==
  /\ detectedNote # Undefined
  /\ detectedNote.name = targetNote.name
  /\ Abs(cents) <= PITCH_GAME_TOLERANCE

\* a completion test that fires one note late
PitchGameLastNoteLate(currentNoteIndex, targetNotes) ==
  currentNoteIndex >= Len(targetNotes)

\* a completion test that fires one note early
PitchGameLastNoteEarly(currentNoteIndex, targetNotes) ==
  currentNoteIndex + 2 >= Len(targetNotes)

\* "Move to next note or complete game"
PitchGameLastNote(currentNoteIndex, targetNotes) ==
  currentNoteIndex + 1 >= Len(targetNotes)

\* "Check if detected note matches target note"
\* a freshly analysed chunk whose detection the match test turns down
PitchGameNoteRejected(w) ==
  LET c == w.c
  IN IF /\ c.gameState = "playing"
        /\ c.isRecording
        /\ c.detectedNote # Undefined
        /\ c.currentNoteIndex < Len(c.targetNotes)
        /\ ~PitchGameAccepts(c.detectedNote, c.cents, c.targetNotes[c.currentNoteIndex + 1])
     THEN [w EXCEPT !.c.rejected = TRUE]
     ELSE w

PitchGameEffect(w) ==
  LET c == w.c
  IN IF \/ c.gameState # "playing"
        \/ c.detectedNote = Undefined
        \/ c.currentNoteIndex >= Len(c.targetNotes)
     THEN w
     ELSE IF PitchGameAccepts(c.detectedNote, c.cents, c.targetNotes[c.currentNoteIndex + 1])
          THEN LET w1 == [w EXCEPT !.c.matchedNotes[c.currentNoteIndex + 1] = TRUE,
                                   !.c.score = c.score + 1]
               IN IF PitchGameLastNote(c.currentNoteIndex, c.targetNotes)
                  THEN LET w2 == PitchGameStopRecording(
                                   [w1 EXCEPT !.c.gameState = "completed"],
                                   [isRecording |-> c.isRecording, subscriber |-> FALSE])
                       IN IF c.score + 1 = 5 /\ ~c.xpAwarded
                          THEN [w2 EXCEPT !.c.xpAwarded = TRUE,
                                          !.c.awardXPCalls = @ + 1]
                          ELSE w2
                  ELSE [w1 EXCEPT !.c.currentNoteIndex = c.currentNoteIndex + 1]
          ELSE w

PitchGameDeps(w) ==
  <<w.c.detectedNote, w.c.cents, w.c.gameState, w.c.currentNoteIndex,
    w.c.targetNotes, w.c.matchedNotes, w.c.score, w.c.xpAwarded>>

\* React re-runs the effect until a run leaves its dependencies unchanged
RECURSIVE PitchGameSettle(_)
PitchGameSettle(w) ==
  LET w1 == PitchGameEffect(w)
  IN IF PitchGameDeps(w1) = PitchGameDeps(w) THEN w1 ELSE PitchGameSettle(w1)

PitchGameWorld == [c |-> pitchGame, timers |-> timers, mic |-> mic]
PitchGameCommit(w) ==
  /\ w.mic.listeners <= MaxListeners
  /\ pitchGame' = w.c
  /\ mic' = w.mic
  /\ UNCHANGED <<backend, calc, screen, timers, pd, speed, memory, lesson>>

PitchGamePermission(granted) ==
  /\ screen = "GamePitch"
  /\ pitchGame.micAccess = "pending"
  /\ pitchGame' = [pitchGame EXCEPT !.micAccess = IF granted THEN "granted" ELSE "denied"]
  /\ UNCHANGED <<backend, calc, screen, mic, timers, pd, speed, memory, lesson>>

\* "Start Game" / "Play Again"; f is the estimator's result on the window
PitchGameStartGame(notes, f) ==
  /\ screen = "GamePitch"
  /\ pitchGame.gameState \in {"ready", "completed"}
  /\ pitchGame.micAccess = "granted"
  /\ f \in EstimatorResults(pitchGame.audioBuffer, PitchGameHeard)
  /\ LET w1 == [PitchGameWorld EXCEPT
                  !.c.targetNotes = [i \in 1..Len(notes) |-> [name |-> notes[i]]],
                  !.c.currentNoteIndex = 0,
                  !.c.score = 0,
                  !.c.matchedNotes = [i \in 1..PITCH_GAME_LENGTH |-> FALSE],
                  !.c.xpAwarded = FALSE,
                  !.c.awardXPCalls = 0,
                  !.c.rejected = FALSE,
                  !.c.gameState = "playing"]
         w2 == StartRecording(w1, pitchGame)
         w3 == PitchGameSettle(w2)
         w4 == [w3 EXCEPT !.c = WithDetection(@, PitchEffect(w2.c, f))]
     IN PitchGameCommit(PitchGameSettle(w4))

PitchGameAudioBuffer(f) ==
  /\ screen = "GamePitch"
  /\ mic.recording /\ mic.listeners > 0
  /\ LET buf == AppendTimes(pitchGame.audioBuffer, GameChunk, mic.listeners)
     IN /\ f \in EstimatorResults(buf, PitchGameHeard)
        /\ LET w1 == [PitchGameWorld EXCEPT !.c.audioBuffer = buf]
               w2 == PitchGameNoteRejected([w1 EXCEPT !.c = PitchEffect(@, f)])
           IN PitchGameCommit(PitchGameSettle(w2))

\* "Stop Game"
PitchGameResetGame ==
  /\ screen = "GamePitch"
  /\ pitchGame.gameState = "playing"
  /\ pitchGame.micAccess = "granted"
  /\ LET w1 == PitchGameStopRecording(PitchGameWorld,
                   [isRecording |-> pitchGame.isRecording, subscriber |-> FALSE])
         w2 == [w1 EXCEPT !.c.gameState = "ready",
                          !.c.targetNotes = <<>>,
                          !.c.currentNoteIndex = 0,
                          !.c.score = 0,
                          !.c.matchedNotes = <<>>,
                          !.c.xpAwarded = FALSE,
                          !.c.awardXPCalls = 0,
                          !.c.rejected = FALSE]
     IN PitchGameCommit(PitchGameSettle(w2))

\* -------------------------------------------------------------- LessonFlow
\* DIFFICULTY_LEVELS of the lesson list, and a quick-practice lesson
LessonRoutes ==
  {[difficulty |-> "Easy", notes |-> <<"A", "C", "D", "E", "G">>],
   [difficulty |-> "Medium", notes |-> <<"B", "F">>],
   [difficulty |-> "Hard", notes |-> <<"A#", "C#", "D#", "F#", "G#">>],
   [difficulty |-> "Easy", notes |-> <<"A">>]}

LessonInit(route) ==
  [difficulty |-> route.difficulty, notes |-> route.notes,
   micAccess |-> "pending", isRecording |-> FALSE, audioBuffer |-> ZeroBuffer,
   pitch |-> NoPitch, detectedNote |-> Undefined, cents |-> 0,
   lessonState |-> "ready", currentNoteIndex |-> 0,
   completedNotes |-> [i \in 1..Len(route.notes) |-> FALSE], attempts |-> 0,
   awarded |-> {}]              \* levels given to checkAndAwardLessonAchievement

\* the notes of a level in DIFFICULTY_LEVELS
LevelNotes(difficulty) ==
  LET level == CHOOSE r \in LessonRoutes :
                 r.difficulty = difficulty /\ Len(r.notes) > 1
  IN {level.notes[i] : i \in 1..Len(level.notes)}

isLevelLocked(difficulty, lessonAchievements) ==
  CASE difficulty = "Easy" -> FALSE
    [] difficulty = "Medium" -> "Easy" \notin lessonAchievements
    [] difficulty = "Hard" -> "Medium" \notin lessonAchievements
    [] OTHER -> FALSE

LessonHeard(notes) ==
  PitchesAround({notes[i] : i \in 1..Len(notes)}, {4}, LESSON_TOLERANCE)

LessonStopRecording(w, cl) ==
  [w EXCEPT !.mic = MicStop(IF cl.subscriber THEN MicRemoveListener(@) ELSE @),
            !.c.isRecording = FALSE]

LessonAcceptsAnyCents(detectedNote, cents, targetNoteName) ==
  detectedNote.name = targetNoteName

\* the acceptance test of the match effect
LessonAccepts(detectedNote, cents, targetNoteName) ==
  detectedNote.name = targetNoteName /\ Abs(cents) <= LESSON_TOLERANCE

\* "Check if detected note matches target note"
LessonEffect(w) ==
  LET c == w.c
  IN IF c.lessonState # "listening" \/ c.detectedNote = Undefined THEN w
     ELSE IF /\ c.currentNoteIndex < Len(c.notes)
             /\ LessonAccepts(c.detectedNote, c.cents, c.notes[c.currentNoteIndex + 1])
          THEN LET w1 == LessonStopRecording(w, [subscriber |-> FALSE])
                   w2 == [w1 EXCEPT !.c.completedNotes[c.currentNoteIndex + 1] = TRUE]
               IN IF c.currentNoteIndex + 1 >= Len(c.notes)
                  THEN [w2 EXCEPT !.c.lessonState = "completed",
                                  !.c.awarded = @ \cup {c.difficulty}]
                  ELSE [w2 EXCEPT !.c.currentNoteIndex = c.currentNoteIndex + 1,
                                  !.c.lessonState = "learning",
                                  !.c.attempts = 0]
          ELSE w

LessonDeps(w) ==
  <<w.c.detectedNote, w.c.cents, w.c.lessonState, w.c.currentNoteIndex,
    w.c.completedNotes>>

\* React re-runs the effect until a run leaves its dependencies unchanged
RECURSIVE LessonSettle(_)
LessonSettle(w) ==
  LET w1 == LessonEffect(w)
  IN IF LessonDeps(w1) = LessonDeps(w) THEN w1 ELSE LessonSettle(w1)

LessonWorld == [c |-> lesson, timers |-> timers, mic |-> mic]
LessonCommit(w) ==
  /\ w.mic.listeners <= MaxListeners
  /\ w.c.attempts <= MaxAttempts
  /\ lesson' = w.c
  /\ mic' = w.mic
  /\ UNCHANGED <<backend, calc, screen, timers, pd, speed, memory, pitchGame>>

LessonPermission(granted) ==
  /\ screen = "LessonFlow"
  /\ lesson.micAccess = "pending"
  /\ lesson' = [lesson EXCEPT !.micAccess = IF granted THEN "granted" ELSE "denied"]
  /\ UNCHANGED <<backend, calc, screen, mic, timers, pd, speed, memory, pitchGame>>

\* "Start Learning"
LessonStartLearning ==
  /\ screen = "LessonFlow"
  /\ lesson.lessonState = "ready"
  /\ LessonCommit(LessonSettle(
       [LessonWorld EXCEPT
          !.c.currentNoteIndex = 0,
          !.c.completedNotes = [i \in 1..Len(lesson.notes) |-> FALSE],
          !.c.attempts = 0,
          !.c.lessonState = "learning"]))

\* "Start Listening"; f is the estimator's result on the window
LessonStartListening(f) ==
  /\ screen = "LessonFlow"
  /\ lesson.lessonState = "learning"
  /\ f \in EstimatorResults(lesson.audioBuffer, LessonHeard(lesson.notes))
  /\ LET w1 == [LessonWorld EXCEPT !.c.lessonState = "listening",
                                   !.c.attempts = lesson.attempts + 1]
         w2 == StartRecording(w1, lesson)
         w3 == LessonSettle(w2)
         w4 == [w3 EXCEPT !.c = WithDetection(@, PitchEffect(w2.c, f))]
     IN LessonCommit(LessonSettle(w4))

\* "Stop Listening"
LessonStopListening ==
  /\ screen = "LessonFlow"
  /\ lesson.lessonState = "listening"
  /\ LET w1 == LessonStopRecording(LessonWorld, [subscriber |-> FALSE])
     IN LessonCommit(LessonSettle([w1 EXCEPT !.c.lessonState = "learning"]))

LessonAudioBuffer(f) ==
  /\ screen = "LessonFlow"
  /\ mic.recording /\ mic.listeners > 0
  /\ LET buf == AppendTimes(lesson.audioBuffer, GameChunk, mic.listeners)
     IN /\ f \in EstimatorResults(buf, LessonHeard(lesson.notes))
        /\ LET w1 == [LessonWorld EXCEPT !.c.audioBuffer = buf]
               w2 == [w1 EXCEPT !.c = PitchEffect(@, f)]
           IN LessonCommit(LessonSettle(w2))

\* "Practice Again"
LessonRestart ==
  /\ screen = "LessonFlow"
  /\ lesson.lessonState = "completed"
  /\ LessonCommit(LessonSettle(
       [LessonWorld EXCEPT
          !.c.currentNoteIndex = 0,
          !.c.completedNotes = [i \in 1..Len(lesson.notes) |-> FALSE],
          !.c.attempts = 0,
          !.c.lessonState = "ready"]))


\* ------------------------------------------------------------ Home (tuner)
HomeHeard == PitchesAround({"A"}, {4}, TUNING_TOLERANCE)

HomeWorld == [pd |-> pd, timers |-> timers, mic |-> mic]
HomeCommit(w) ==
  /\ Len(w.timers) <= MaxTimers
  /\ pd' = w.pd
  /\ timers' = w.timers
  /\ mic' = w.mic
  /\ UNCHANGED <<backend, calc, screen, speed, memory, pitchGame, lesson>>

HomePermission(granted) ==
  /\ screen = "Home"
  /\ pd.micAccess = "pending"
  /\ pd' = [pd EXCEPT !.micAccess = IF granted THEN "granted" ELSE "denied"]
  /\ UNCHANGED <<backend, calc, screen, mic, timers, speed, memory, pitchGame, lesson>>

\* the recording button; f is the estimator's result on the window
toggleRecording(f) ==
  /\ screen = "Home"
  /\ pd.micAccess = "granted"
  /\ f \in EstimatorResults(pd.audioBuffer, HomeHeard)
  /\ IF pd.isRecording
     THEN /\ f = NoPitch
          /\ HomeCommit(hookStopRecording(HomeWorld, pd))
     ELSE LET w1 == hookStartRecording(HomeWorld, pd, AUTO_STOP_AFTER)
          IN HomeCommit([w1 EXCEPT !.pd = hookPitchEffect(@, f)])

\* an audio chunk of any length reaches the onAudioBuffer listener
HomeAudioBuffer(samples, f) ==
  /\ screen = "Home"
  /\ mic.recording /\ mic.listeners > 0
  /\ LET buf == AppendTimes(pd.audioBuffer, samples, mic.listeners)
     IN /\ f \in EstimatorResults(buf, HomeHeard)
        /\ LET w1 == [HomeWorld EXCEPT !.pd.audioBuffer = buf]
           IN HomeCommit([w1 EXCEPT !.pd = hookPitchEffect(@, f)])

\* the auto-stop timer fires
HomeAutoStopFire(i) ==
  /\ screen = "Home"
  /\ timers[i].kind = "autoStop" /\ timers[i].rem = 0
  /\ LET w1 == [HomeWorld EXCEPT !.timers = RemoveAt(timers, i)]
     IN HomeCommit(hookStopRecording(w1, timers[i].cap))

\* The screen is left (navigation.goBack): the cleanup of the hook's unmount
\* effect runs.  The effect has no dependencies, so the stopRecording it
\* calls is the one of the first render, which closed over the initial
\* isRecording.  The component's state is discarded; the callbacks of its
\* pending timers only set that state or call a stopRecording that closed
\* over isRecording = false, so they are dropped with it.
Unmounted(w) ==
  /\ screen' = "unmounted"
  /\ mic' = w.mic
  /\ timers' = <<>>
  /\ pd' = PdInit
  /\ speed' = SpeedInit
  /\ UNCHANGED <<backend, calc, memory, pitchGame, lesson>>

HomeUnmount ==
  /\ screen = "Home"
  /\ Unmounted(hookStopRecording(HomeWorld, PdInit))

\* GameSpeed's own cleanup calls the stopRecording of its first render too,
\* and clears the cooldown timer
SpeedUnmount ==
  /\ screen = "GameSpeed"
  /\ LET w1 == hookStopRecording(SpeedWorld, PdInit)
         w2 == hookStopRecording(w1, PdInit)
     IN Unmounted([w2 EXCEPT !.timers = ClearTracked(@, "cooldown")])

\* -------------------------------------------------------------------- time
DueTimer == \E i \in 1..Len(timers) : timers[i].rem = 0

Tick ==
  /\ ~DueTimer
  /\ timers' = [i \in 1..Len(timers) |-> [timers[i] EXCEPT !.rem = @ - 1]]
  /\ speed' = [speed EXCEPT !.elapsed = Min(@ + 1, MaxElapsed)]
  /\ memory' = IF screen = "GameMemory" /\ memory.gamePhase = "memorize"
               THEN [memory EXCEPT !.memorized = @ + 1] ELSE memory
  /\ UNCHANGED <<backend, calc, screen, mic, pd, pitchGame, lesson>>

\* ------------------------------------------------------------ specification
AllHeard ==
  UNION {SpeedHeard, MemoryHeard, PitchGameHeard}
    \cup UNION {LessonHeard(r.notes) : r \in LessonRoutes}

Screens == {"Home", "GameSpeed", "GameMemory", "GamePitch", "LessonFlow"}

\* most service calls made
MaxCalls == 2
Difficulties == {"Easy", "Medium", "Hard"}

\* user_achievements[d]: the records of the signed-in user for the
\* achievement of level d; experience: the user's experience field;
\* calls[id]: a checkAndAwardLessonAchievement call, its position and what
\* it has read
BackendInit ==
  [user_achievements |-> [d \in Difficulties |-> 0],
   experience |-> 0,
   calls |-> [id \in 1..MaxCalls |->
                [pc |-> "idle", difficulty |-> "Easy", existing |-> 0,
                 currentExperience |-> 0]]]

\* no utility call is being followed while a screen is mounted
CalcInit == [fn |-> "none", arg |-> 0, done |-> FALSE, out |-> 0]

Init ==
  /\ screen \in Screens
  /\ calc = CalcInit
  /\ backend = BackendInit
  /\ mic = MicInit
  /\ timers = <<>>
  /\ pd = PdInit
  /\ speed = SpeedInit
  /\ memory = MemoryInit
  /\ pitchGame = PitchGameInit
  /\ \E route \in LessonRoutes :
       /\ lesson = LessonInit(route)
       /\ screen # "LessonFlow" => route.notes = <<"A">>

Next ==
  \/ \E g \in BOOLEAN : SpeedPermission(g)
  \/ \E notes \in SpeedTargetLists, f \in SpeedHeard : SpeedStartGame(notes, f)
  \/ \E f \in SpeedHeard : SpeedAudioBuffer(f)
  \/ \E i \in 1..Len(timers) : SpeedCooldownFire(i)
  \/ \E i \in 1..Len(timers) : SpeedAdvanceFire(i)
  \/ SpeedResetGame
  \/ \E g \in BOOLEAN : MemoryPermission(g)
  \/ \E sequence \in SeqsOfLen(MemoryNotes, getSequenceLength(memory.currentRound)) :
       MemoryStartGame(sequence)
  \/ \E sequence \in SeqsOfLen(MemoryNotes, getSequenceLength(memory.currentRound)) :
       MemoryNextRound(sequence)
  \/ \E i \in 1..Len(timers), f \in MemoryHeard : MemoryIntervalFire(i, f)
  \/ \E f \in MemoryHeard : MemoryAudioBuffer(f)
  \/ \E i \in 1..Len(timers) : MemoryHoldFire(i)
  \/ \E i \in 1..Len(timers) : MemoryTimeoutFire(i)
  \/ MemoryResetGame
  \/ MemoryUnmount
  \/ \E i \in 1..Len(timers), evaluated \in BOOLEAN :
       MemoryIntervalFireUnmounted(i, evaluated)
  \/ \E i \in 1..Len(timers) : MemoryHoldFireUnmounted(i)
  \/ \E i \in 1..Len(timers) : MemoryTimeoutFireUnmounted(i)
  \/ \E g \in BOOLEAN : PitchGamePermission(g)
  \/ \E notes \in SeqsOfLen(GameNames, PITCH_GAME_LENGTH), f \in PitchGameHeard :
       PitchGameStartGame(notes, f)
  \/ \E f \in PitchGameHeard : PitchGameAudioBuffer(f)
  \/ PitchGameResetGame
  \/ \E g \in BOOLEAN : LessonPermission(g)
  \/ LessonStartLearning
  \/ \E f \in AllHeard : LessonStartListening(f)
  \/ LessonStopListening
  \/ \E f \in AllHeard : LessonAudioBuffer(f)
  \/ LessonRestart
  \/ \E g \in BOOLEAN : HomePermission(g)
  \/ \E f \in HomeHeard : toggleRecording(f)
  \/ \E samples \in Chunks, f \in HomeHeard : HomeAudioBuffer(samples, f)
  \/ \E i \in 1..Len(timers) : HomeAutoStopFire(i)
  \/ HomeUnmount
  \/ SpeedUnmount
  \/ Tick

Spec == Init /\ [][Next]_vars

\* any pending timer's callback runs
TimerFire ==
  \E i \in 1..Len(timers) :
    \/ SpeedCooldownFire(i)
    \/ SpeedAdvanceFire(i)
    \/ \E f \in MemoryHeard : MemoryIntervalFire(i, f)
    \/ MemoryHoldFire(i)
    \/ MemoryTimeoutFire(i)
    \/ HomeAutoStopFire(i)

\* time passes and a due timer's callback is eventually run
FairSpec == Spec /\ WF_vars(Tick) /\ WF_vars(TimerFire)

\* ---------------------------------------------------------------- services
\* checkAndAwardLessonAchievement and the requests it awaits, one action per
\* request; calls of several lesson completions may be in flight together.
getExperienceForDifficulty(difficulty) ==
  CASE difficulty = "Easy" -> 50
    [] difficulty = "Medium" -> 100
    [] difficulty = "Hard" -> 200
    [] OTHER -> 25

ServiceStep(id, call) ==
  /\ backend' = [backend EXCEPT !.calls[id] = call]
  /\ UNCHANGED <<calc, screen, mic, timers, pd, speed, memory, pitchGame, lesson>>

\* a lesson of the level has been completed: the call is made and
\* completeAchievement sends its getFullList
checkAndAwardLessonAchievement(id, difficulty) ==
  /\ screen = "services"
  /\ backend.calls[id].pc = "idle"
  /\ ServiceStep(id, [backend.calls[id] EXCEPT !.pc = "getFullList",
                                               !.difficulty = difficulty])

\* getFullList resolves with the records there are
completeAchievementGetFullList(id) ==
  LET call == backend.calls[id]
  IN /\ screen = "services"
     /\ call.pc = "getFullList"
     /\ ServiceStep(id, [call EXCEPT
                           !.existing = backend.user_achievements[call.difficulty],
                           !.pc = IF backend.user_achievements[call.difficulty] > 0
                                  THEN "getOne" ELSE "create"])

\* the record is created
completeAchievementCreate(id) ==
  LET call == backend.calls[id]
  IN /\ screen = "services"
     /\ call.pc = "create"
     /\ backend' = [backend EXCEPT
                      !.user_achievements[call.difficulty] = @ + 1,
                      !.calls[id].pc = "getOne"]
     /\ UNCHANGED <<calc, screen, mic, timers, pd, speed, memory, pitchGame, lesson>>

\* updateUserExperience reads the user
updateUserExperienceGetOne(id) ==
  LET call == backend.calls[id]
  IN /\ screen = "services"
     /\ call.pc = "getOne"
     /\ ServiceStep(id, [call EXCEPT !.currentExperience = backend.experience,
                                     !.pc = "update"])

\* updateUserExperience writes the sum
updateUserExperienceUpdate(id) ==
  LET call == backend.calls[id]
  IN /\ screen = "services"
     /\ call.pc = "update"
     /\ backend' = [backend EXCEPT
                      !.experience = call.currentExperience
                                       + getExperienceForDifficulty(call.difficulty),
                      !.calls[id].pc = "done"]
     /\ UNCHANGED <<calc, screen, mic, timers, pd, speed, memory, pitchGame, lesson>>

ServiceInit ==
  /\ screen = "services"
  /\ calc = CalcInit
  /\ backend = BackendInit
  /\ mic = MicInit
  /\ timers = <<>>
  /\ pd = PdInit
  /\ speed = SpeedInit
  /\ memory = MemoryInit
  /\ pitchGame = PitchGameInit
  /\ lesson = LessonInit(CHOOSE r \in LessonRoutes : r.notes = <<"A">>)

ServiceNext ==
  \/ \E id \in 1..MaxCalls, difficulty \in Difficulties :
       checkAndAwardLessonAchievement(id, difficulty)
  \/ \E id \in 1..MaxCalls : completeAchievementGetFullList(id)
  \/ \E id \in 1..MaxCalls : completeAchievementCreate(id)
  \/ \E id \in 1..MaxCalls : updateUserExperienceGetOne(id)
  \/ \E id \in 1..MaxCalls : updateUserExperienceUpdate(id)

ServiceSpec == ServiceInit /\ [][ServiceNext]_vars

\* ------------------------------------------------------------ note utilities
\* The pure functions of the note utilities, followed one call at a time:
\* calc holds the function called, its argument and, once it has returned,
\* its result.
Call(fn, arg) == [fn |-> fn, arg |-> arg, done |-> FALSE, out |-> 0]
Return(fn, out) ==
  /\ calc.fn = fn
  /\ ~calc.done
  /\ calc' = [calc EXCEPT !.done = TRUE, !.out = out]
  /\ UNCHANGED <<backend, screen, mic, timers, pd, speed, memory, pitchGame, lesson>>
Returned(fn) == calc.fn = fn /\ calc.done

\* sample values of the windows and chunks of a followed call
WindowSamples == {0, 1, 2}
Windows == SeqsOfLen(WindowSamples, BufSize)
WindowChunks == UNION {SeqsOfLen(WindowSamples \ {0}, n) : n \in 0..BufSize}

\* the setAudioBuffer updater of the onAudioBuffer listener
CallAppendSamples ==
  Return("AppendSamples", AppendSamples(calc.arg.prevBuffer, calc.arg.samples))

\* frequencies within CentsSpan cents of A4, the doubles one place below the
\* half-semitone boundaries next to A4, and estimator results <= 0
CentsSpan == 120
NoPitchSpan == 2
Frequencies ==
  {[pos |-> TRUE, v |-> c, ulp |-> 0] : c \in (-CentsSpan)..CentsSpan}
    \cup {[pos |-> TRUE, v |-> c, ulp |-> -1] : c \in {-50, 50}}
    \cup {[pos |-> FALSE, v |-> -hz, ulp |-> 0] : hz \in 0..NoPitchSpan}

\* detectPitch after the estimator has returned pitch: the note and the
\* cents of every copy of getNoteFromFreq / getNoteCents, and isValidPitch
CallDetectPitch ==
  Return("detectPitch",
         [note |-> getNoteFromFreq(calc.arg),
          noteGameMemory |-> getNoteFromFreqOct(calc.arg),
          noteGamePitch |-> getNoteFromFreqGamePitch(calc.arg),
          cents |-> getNoteCents(calc.arg),
          centsGamePitch |-> getNoteCentsGamePitch(calc.arg),
          isValidPitch |-> isValidPitch(calc.arg, getNoteFromFreq(calc.arg))])

\* notes of the octaves within OctaveSpan of octave 4
OctaveSpan == 2
Notes ==
  {[name |-> NOTE_NAMES[i], octave |-> o] :
     i \in 1..12, o \in (4 - OctaveSpan)..(4 + OctaveSpan)}

\* getFreqFromNote, and getNoteFromFreq of its result in every copy
CallGetFreqFromNote ==
  LET frequency == getFreqFromNote(calc.arg)
  IN Return("getFreqFromNote",
            [frequency |-> frequency,
             note |-> getNoteFromFreq(frequency),
             noteGameMemory |-> getNoteFromFreqOct(frequency),
             noteGamePitch |-> getNoteFromFreqGamePitch(frequency)])

\* NOTE_NAMES.indexOf(name): -1 when name is not in the array
indexOf(name) ==
  IF \E i \in 1..12 : NOTE_NAMES[i] = name THEN IndexOf(name) - 1 ELSE -1

noteToMIDI(noteName, octave) == (octave + 1) * 12 + indexOf(noteName)

\* NOTE_NAMES[noteIndex] is undefined for an index outside the array
MIDIToNote(midiNote) ==
  LET octave == (midiNote \div 12) - 1
      noteIndex == JsRem(midiNote, 12)
  IN [name |-> IF noteIndex \in 0..11 THEN NOTE_NAMES[noteIndex + 1]
               ELSE Undefined.name,
      octave |-> octave]

\* MIDI note numbers from -MidiSpan to MidiSpan
MidiSpan == 13

\* MIDIToNote, and noteToMIDI of its result
CallMIDIToNote ==
  LET note == MIDIToNote(calc.arg)
  IN Return("MIDIToNote", [note |-> note, midi |-> noteToMIDI(note.name, note.octave)])

\* noteToMIDI, and MIDIToNote of its result
CallNoteToMIDI ==
  LET midi == noteToMIDI(calc.arg.name, calc.arg.octave)
  IN Return("noteToMIDI", [midi |-> midi, note |-> MIDIToNote(midi)])

\* a classification whose in-tune band excludes the tolerance itself
getTuningStatusStrict(cents) ==
  IF Abs(cents) < TUNING_TOLERANCE THEN "in-tune"
  ELSE IF cents > 0 THEN "sharp"
  ELSE "flat"

getTuningStatus(cents) ==
  IF Abs(cents) <= TUNING_TOLERANCE THEN "in-tune"
  ELSE IF cents > TUNING_TOLERANCE THEN "sharp"
  ELSE "flat"

\* cents values from -TuneSpan to TuneSpan
TuneSpan == 12

CallGetTuningStatus ==
  Return("getTuningStatus", getTuningStatus(calc.arg))

\* ------------------------------------------------------------------ ranks
\* finite is FALSE where maxExp is Infinity
RANKS ==
  <<[title |-> "Tone-Deaf Beginner", minExp |-> 0, maxExp |-> 99, finite |-> TRUE],
    [title |-> "Note Novice", minExp |-> 100, maxExp |-> 249, finite |-> TRUE],
    [title |-> "Rhythm Rookie", minExp |-> 250, maxExp |-> 499, finite |-> TRUE],
    [title |-> "Melody Maker", minExp |-> 500, maxExp |-> 999, finite |-> TRUE],
    [title |-> "Harmony Hero", minExp |-> 1000, maxExp |-> 1999, finite |-> TRUE],
    [title |-> "Pitch Perfect", minExp |-> 2000, maxExp |-> 3999, finite |-> TRUE],
    [title |-> "Tempo Master", minExp |-> 4000, maxExp |-> 7999, finite |-> TRUE],
    [title |-> "Scale Sage", minExp |-> 8000, maxExp |-> 15999, finite |-> TRUE],
    [title |-> "Chord Champion", minExp |-> 16000, maxExp |-> 31999, finite |-> TRUE],
    [title |-> "Symphony Virtuoso", minExp |-> 32000, maxExp |-> 63999, finite |-> TRUE],
    [title |-> "Musical Maestro", minExp |-> 64000, maxExp |-> 127999, finite |-> TRUE],
    [title |-> "Legendary Composer", minExp |-> 128000, maxExp |-> 0, finite |-> FALSE]>>

\* Array.prototype.findIndex, 1-based; 0 where JavaScript gives -1
findIndex(matching) ==
  IF matching = {} THEN 0
  ELSE CHOOSE i \in matching : \A j \in matching : i <= j

\* a test of the lower end that leaves the minimum out
RankHoldsAboveMin(rank, experience) ==
  experience > rank.minExp /\ (~rank.finite \/ experience <= rank.maxExp)

\* experience >= rank.minExp && experience <= rank.maxExp
RankHolds(rank, experience) ==
  experience >= rank.minExp /\ (~rank.finite \/ experience <= rank.maxExp)

currentRankOf(experience) ==
  LET found == findIndex({i \in 1..Len(RANKS) : RankHolds(RANKS[i], experience)})
  IN IF found = 0 THEN 1 ELSE found

\* 0 where the code has undefined
nextRankOf(experience) ==
  findIndex({i \in 1..Len(RANKS) : RANKS[i].minExp > experience})

\* progress is the fraction num / den
getTitleAndRank(experience) ==
  LET currentRank == RANKS[currentRankOf(experience)]
      next == nextRankOf(experience)
      progress ==
        IF next # 0
        THEN [num |-> (experience - currentRank.minExp) * 100,
              den |-> RANKS[next].minExp - currentRank.minExp]
        ELSE [num |-> 100, den |-> 1]
  IN [current |-> currentRank.title,
      next |-> IF next # 0 THEN RANKS[next].title ELSE "undefined",
      progress |-> IF progress.num > 100 * progress.den THEN [num |-> 100, den |-> 1]
                   ELSE IF progress.num < 0 THEN [num |-> 0, den |-> 1]
                   ELSE progress]

\* an amount one short of the next rank's minimum
getExpToNextRankShort(experience) ==
  LET next == nextRankOf(experience)
  IN IF next # 0 THEN RANKS[next].minExp - experience - 1 ELSE 0

getExpToNextRank(experience) ==
  LET next == nextRankOf(experience)
  IN IF next # 0 THEN RANKS[next].minExp - experience ELSE 0

isRankUp(currentExp, newExp) ==
  LET currentRank == getTitleAndRank(currentExp)
      newRank == getTitleAndRank(newExp)
      currentRankIndex ==
        findIndex({i \in 1..Len(RANKS) : RANKS[i].title = currentRank.current})
      newRankIndex ==
        findIndex({i \in 1..Len(RANKS) : RANKS[i].title = newRank.current})
  IN newRankIndex > currentRankIndex

\* experience values up to ExpSpan on either side of each rank's minimum
ExpSpan == 2
Experiences ==
  {e \in {RANKS[i].minExp + d : i \in 1..Len(RANKS), d \in (-ExpSpan)..ExpSpan} :
     e >= 0}

CallGetTitleAndRank ==
  Return("getTitleAndRank", getTitleAndRank(calc.arg))

CallGetExpToNextRank ==
  Return("getExpToNextRank", getExpToNextRank(calc.arg))

CallIsRankUp ==
  Return("isRankUp", isRankUp(calc.arg.currentExp, calc.arg.newExp))

UtilCalls ==
  {Call("AppendSamples", [prevBuffer |-> w, samples |-> c]) :
     w \in Windows, c \in WindowChunks}
    \cup {Call("detectPitch", f) : f \in Frequencies}
    \cup {Call("getFreqFromNote", n) : n \in Notes}
    \cup {Call("MIDIToNote", m) : m \in (-MidiSpan)..MidiSpan}
    \cup {Call("noteToMIDI", [name |-> NOTE_NAMES[i], octave |-> o]) :
            i \in 1..12, o \in (-OctaveSpan)..OctaveSpan}
    \cup {Call("getTuningStatus", c) : c \in (-TuneSpan)..TuneSpan}
    \cup {Call("getTitleAndRank", e) : e \in Experiences}
    \cup {Call("getExpToNextRank", e) : e \in Experiences}
    \cup {Call("isRankUp", [currentExp |-> a, newExp |-> b]) :
            a \in Experiences, b \in Experiences}

UtilInit ==
  /\ screen = "noteUtils"
  /\ mic = MicInit
  /\ timers = <<>>
  /\ pd = PdInit
  /\ speed = SpeedInit
  /\ memory = MemoryInit
  /\ pitchGame = PitchGameInit
  /\ lesson = LessonInit(CHOOSE r \in LessonRoutes : r.notes = <<"A">>)
  /\ calc \in UtilCalls
  /\ backend = BackendInit

UtilNext ==
  \/ CallAppendSamples
  \/ CallDetectPitch
  \/ CallGetFreqFromNote
  \/ CallMIDIToNote
  \/ CallNoteToMIDI
  \/ CallGetTuningStatus
  \/ CallGetTitleAndRank
  \/ CallGetExpToNextRank
  \/ CallIsRankUp

UtilSpec == UtilInit /\ [][UtilNext]_vars

\* ------------------------------------------------------------- properties
\* the step a timer was scheduled for has completed
SpeedStepDone(step) ==
  speed.currentNoteIndex > step \/ speed.gameState = "finished"
MemoryStepDone(step) ==
  \/ memory.currentNoteIndex > step
  \/ memory.gamePhase \in {"roundComplete", "failed", "completed"}

SpeedStepState ==
  <<speed.currentNoteIndex, speed.gameState, speed.noteTimes, speed.feedback,
    speed.elapsed>>
MemoryStepState ==
  <<memory.currentNoteIndex, memory.gamePhase, memory.playerSequence, memory.score>>

\* C1: in GameSpeed and GameMemory a timer scheduled for a step that has since
\* completed (the index has moved past it, or the game finished or failed) is
\* a no-op when it fires: index, state/phase, per-step results, feedback and
\* the current note's start time stay as they are.
C1_StaleTimerNoOp ==
  [][\A i \in 1..Len(timers) :
       /\ (SpeedStepDone(timers[i].step) /\ (SpeedAdvanceFire(i) \/ SpeedCooldownFire(i)))
            => SpeedStepState' = SpeedStepState
       /\ (MemoryStepDone(timers[i].step) /\ (MemoryHoldFire(i) \/ MemoryTimeoutFire(i)))
            => MemoryStepState' = MemoryStepState]_vars

SpeedResetState == <<speed.currentNoteIndex, speed.gameState, speed.noteTimes>>
MemoryResetState ==
  <<memory.currentNoteIndex, memory.gamePhase, memory.playerSequence, memory.score>>

\* C2: resetGame of GameSpeed and GameMemory returns to 'setup' with index 0
\* and empty results, and no timer scheduled before the reset changes the
\* index, the state/phase or the results afterwards.
C2_ResetCancelsTimers ==
  [][/\ SpeedResetGame => SpeedResetState' = <<0, "setup", <<>>>>
     /\ MemoryResetGame => MemoryResetState' = <<0, "setup", <<>>, 0>>
     /\ \A i \in 1..Len(timers) :
          timers[i].preReset =>
            /\ (SpeedAdvanceFire(i) \/ SpeedCooldownFire(i))
                 => SpeedResetState' = SpeedResetState
            /\ (\/ MemoryHoldFire(i)
                \/ MemoryTimeoutFire(i)
                \/ \E f \in MemoryHeard : MemoryIntervalFire(i, f))
                 => MemoryResetState' = MemoryResetState]_vars

\* C3: in GameMemory's recall phase there is always a pending hold timer or a
\* pending step timeout (a match whose hold is later cancelled does not
\* disarm the step timeout).
C3_RecallTimerPending ==
  (screen = "GameMemory" /\ memory.gamePhase = "recall")
    => (HasTimer(timers, "hold") \/ HasTimer(timers, "noteTimeout"))

\* C4: a GameMemory round, for which a step timeout is configured, does not
\* stay in recall forever: it reaches roundComplete or failed (or is reset).
C4_Termination ==
  (screen = "GameMemory" /\ memory.gamePhase = "recall")
    ~> (memory.gamePhase \in {"roundComplete", "failed", "setup"})

\* C5: in recall, a detection with no pitch arriving while a hold timer runs
\* cancels the hold timer.
C5_DropoutCancelsHold ==
  [][(/\ memory.gamePhase = "recall"
      /\ HasTimer(timers, "hold")
      /\ MemoryAudioBuffer(NoPitch))
     => ~HasTimer(timers', "hold")]_vars

\* the ticks left on the pending hold timers
HoldRem(ts) == {ts[i].rem : i \in {j \in 1..Len(ts) : ts[j].kind = "hold"}}

\* C6: in recall, a matching detection arriving while the hold timer of the
\* step runs leaves that timer running with the time it had left; it does not
\* restart it.
C6_HoldStartsOnce ==
  [][\A f \in MemoryHeard :
       (/\ memory.gamePhase = "recall"
        /\ HasTimer(timers, "hold")
        /\ memory.currentNoteIndex < Len(memory.melodySequence)
        /\ getNoteFromFreqOct(f) = memory.melodySequence[memory.currentNoteIndex + 1]
        /\ Abs(getNoteCents(f)) <= PITCH_TOLERANCE
        /\ MemoryAudioBuffer(f))
       => HoldRem(timers') = HoldRem(timers)]_vars

\* a detection of frequency f is off the target: no note, another note name,
\* or more than tol cents from the note
OffTarget(f, name, tol) ==
  ~f.pos \/ getNoteFromFreq(f).name # name \/ Abs(getNoteCents(f)) > tol
\* a detection of the target note exactly tol cents off
AtTolerance(f, name, tol) ==
  f.pos /\ getNoteFromFreq(f).name = name /\ Abs(getNoteCents(f)) = tol

\* C7: in every matcher a detection whose note differs from the target's (in
\* GameMemory also whose octave differs) or whose |cents| exceeds the
\* tolerance (15, 20, 20, 30) never marks the step matched nor advances the
\* index, and in GameMemory it cancels a running hold timer; a detection of
\* the target note with |cents| equal to the tolerance is accepted.
C7_ToleranceAcceptance ==
  [][/\ \A f \in SpeedHeard :
          (SpeedAudioBuffer(f) /\ speed.currentNoteIndex < Len(speed.targetNotes)) =>
            LET target == speed.targetNotes[speed.currentNoteIndex + 1]
            IN /\ OffTarget(f, target, SPEED_TOLERANCE)
                    => /\ speed'.currentNoteIndex = speed.currentNoteIndex
                       /\ speed'.noteTimes = speed.noteTimes
                       /\ speed'.gameState = speed.gameState
               /\ (/\ AtTolerance(f, target, SPEED_TOLERANCE)
                   /\ speed.gameState = "playing"
                   /\ SpeedNotDuplicate(speed, target))
                    => Len(speed'.noteTimes) = Len(speed.noteTimes) + 1
     /\ \A f \in PitchGameHeard :
          (PitchGameAudioBuffer(f)
             /\ pitchGame.currentNoteIndex < Len(pitchGame.targetNotes)) =>
            LET target == pitchGame.targetNotes[pitchGame.currentNoteIndex + 1].name
            IN /\ OffTarget(f, target, PITCH_GAME_TOLERANCE)
                    => /\ pitchGame'.currentNoteIndex = pitchGame.currentNoteIndex
                       /\ pitchGame'.matchedNotes = pitchGame.matchedNotes
                       /\ pitchGame'.score = pitchGame.score
               /\ (AtTolerance(f, target, PITCH_GAME_TOLERANCE)
                     /\ pitchGame.gameState = "playing")
                    => pitchGame'.matchedNotes[pitchGame.currentNoteIndex + 1]
     /\ \A f \in MemoryHeard :
          (MemoryAudioBuffer(f) /\ memory.gamePhase = "recall"
             /\ memory.currentNoteIndex < Len(memory.melodySequence)) =>
            LET target == memory.melodySequence[memory.currentNoteIndex + 1]
            IN /\ (\/ OffTarget(f, target.name, PITCH_TOLERANCE)
                   \/ getNoteFromFreqOct(f).octave # target.octave)
                    => /\ MemoryStepState' = MemoryStepState
                       /\ f.pos => ~HasTimer(timers', "hold")
               /\ (/\ AtTolerance(f, target.name, PITCH_TOLERANCE)
                   /\ getNoteFromFreqOct(f).octave = target.octave)
                    => HasTimer(timers', "hold")
     /\ \A f \in LessonHeard(lesson.notes) :
          (LessonAudioBuffer(f) /\ lesson.currentNoteIndex < Len(lesson.notes)) =>
            LET target == lesson.notes[lesson.currentNoteIndex + 1]
            IN /\ OffTarget(f, target, LESSON_TOLERANCE)
                    => /\ lesson'.currentNoteIndex = lesson.currentNoteIndex
                       /\ lesson'.completedNotes = lesson.completedNotes
                       /\ lesson'.lessonState = lesson.lessonState
               /\ (AtTolerance(f, target, LESSON_TOLERANCE)
                     /\ lesson.lessonState = "listening")
                    => lesson'.completedNotes[lesson.currentNoteIndex + 1]]_vars

\* a recall in which a step has been accepted, the note now heard is the
\* target's but more than the tolerance off, and no hold timer runs
C7_Witness ==
  /\ screen = "GameMemory"
  /\ memory.gamePhase = "recall"
  /\ memory.currentNoteIndex > 0
  /\ memory.currentNoteIndex < Len(memory.melodySequence)
  /\ memory.detectedNote = memory.melodySequence[memory.currentNoteIndex + 1]
  /\ Abs(memory.cents) > PITCH_TOLERANCE
  /\ ~HasTimer(timers, "hold")

\* C8: one detection, or one hold completion, completes at most one step:
\* the matched count and the index grow by at most one per event.
C8_NoDoubleCounting ==
  [][/\ pitchGame'.score <= pitchGame.score + 1
     /\ pitchGame'.currentNoteIndex <= pitchGame.currentNoteIndex + 1
     /\ speed'.currentNoteIndex <= speed.currentNoteIndex + 1
     /\ Len(speed'.noteTimes) <= Len(speed.noteTimes) + 1
     /\ memory'.currentNoteIndex <= memory.currentNoteIndex + 1
     /\ memory'.score <= memory.score + 1]_vars

\* C9: GamePitch 'completed', GameMemory 'roundComplete' and LessonFlow
\* 'completed' are reached only with every step matched, and the matched
\* count then equals the sequence length.
C9_SuccessMeansAllMatched ==
  /\ (screen = "GamePitch" /\ pitchGame.gameState = "completed") =>
       /\ pitchGame.score = Len(pitchGame.targetNotes)
       /\ \A i \in 1..Len(pitchGame.targetNotes) : pitchGame.matchedNotes[i]
  /\ (screen = "GameMemory" /\ memory.gamePhase = "roundComplete") =>
       /\ memory.score = Len(memory.melodySequence)
       /\ memory.playerSequence = memory.melodySequence
  /\ (screen = "LessonFlow" /\ lesson.lessonState = "completed") =>
       /\ Len(lesson.completedNotes) = Len(lesson.notes)
       /\ \A i \in 1..Len(lesson.notes) : lesson.completedNotes[i]

\* a GamePitch game completed with all five notes matched
C9_Witness ==
  /\ screen = "GamePitch"
  /\ pitchGame.gameState = "completed"
  /\ pitchGame.score = PITCH_GAME_LENGTH

\* C10: whatever the lengths of the chunks delivered, the rolling window has
\* exactly bufferSize samples.
C10_WindowLength ==
  /\ Len(pd.audioBuffer) = BufSize
  /\ Len(memory.audioBuffer) = BufSize

\* C11: appending a chunk of length k, 0 <= k <= capacity, to the window w
\* gives w[k:] ++ chunk: the oldest k samples are evicted and the order of the
\* rest and of the new samples is kept; an empty chunk changes nothing.
C11_WindowFifo ==
  Returned("AppendSamples") =>
    LET w == calc.arg.prevBuffer
        chunk == calc.arg.samples
        k == Len(chunk)
    IN /\ Len(calc.out) = Len(w)
       /\ \A i \in 1..(Len(w) - k) : calc.out[i] = w[i + k]
       /\ \A i \in 1..k : calc.out[Len(w) - k + i] = chunk[i]
       /\ k = 0 => calc.out = w

\* a chunk shorter than the window has been appended to a window whose
\* samples differ: one sample is evicted and one is kept
C11_Witness ==
  /\ Returned("AppendSamples")
  /\ Len(calc.arg.samples) = 1
  /\ calc.arg.prevBuffer[1] # calc.arg.prevBuffer[2]
  /\ calc.out[1] = calc.arg.prevBuffer[2]

\* C12: at most one onAudioBuffer listener of a screen is attached to the
\* microphone stream at any time, and none is attached once stopRecording has
\* stopped the stream.
C12_SingleAttachment ==
  /\ mic.listeners <= 1
  /\ ~mic.recording => mic.listeners = 0

\* a chunk reaches the listener of usePitchDetection in this step
ChunkArrives ==
  \/ \E samples \in Chunks, f \in HomeHeard : HomeAudioBuffer(samples, f)
  \/ \E f \in SpeedHeard : SpeedAudioBuffer(f)
\* the pitch effect of usePitchDetection produces a detection in this step:
\* one of its dependencies (audioBuffer and bufferId, micAccess, isRecording)
\* changed and its guard passes on the new render
PitchEffectRuns ==
  /\ screen \in {"Home", "GameSpeed"}
  /\ \/ ChunkArrives
     \/ pd'.isRecording # pd.isRecording
     \/ pd'.micAccess # pd.micAccess
  /\ Len(pd'.audioBuffer) # 0 /\ pd'.micAccess = "granted" /\ pd'.isRecording

\* C13: a detection (one estimator call and one update of pitch, note and
\* cents) is produced only by the arrival of a chunk: no detection is produced
\* without a chunk.
C13_OneDetectionPerChunk == [][PitchEffectRuns => ChunkArrives]_vars

\* C14: in GameMemory's memorize phase recording is not running and no step
\* changes currentNoteIndex, score or playerSequence; the phase is left only
\* for recall, by the memorize countdown expiring, and recording starts then.
C14_MemorizeConsumesNothing ==
  [][(screen = "GameMemory" /\ memory.gamePhase = "memorize") =>
       /\ ~mic.recording /\ ~memory.isRecording
       /\ memory'.currentNoteIndex = memory.currentNoteIndex
       /\ memory'.score = memory.score
       /\ memory'.playerSequence = memory.playerSequence
       /\ memory'.gamePhase \in {"memorize", "recall"}
       /\ memory'.gamePhase = "recall" =>
            /\ \E i \in 1..Len(timers), f \in MemoryHeard : MemoryIntervalFire(i, f)
            /\ memory.memoryTimeLeft <= MEMORY_INTERVAL_MS
            /\ mic'.recording /\ memory'.isRecording]_vars

\* the countdown of a second round has expired: recall has begun with
\* recording running and nothing consumed
C14_Witness ==
  /\ screen = "GameMemory"
  /\ memory.gamePhase = "recall"
  /\ memory.currentRound > 1
  /\ mic.recording
  /\ memory.currentNoteIndex = 0
  /\ memory.playerSequence = <<>>

\* C15: the memorize phase of round r lasts max(5000 - (r-1)*300, 2000) ms,
\* r being the current round, whether the round was started by Start Game or
\* by Next Round.
C15_MemorizeDuration ==
  [][(screen = "GameMemory" /\ memory.gamePhase = "memorize"
        /\ memory'.gamePhase = "recall") =>
       memory.memorized * TickMs =
         Max(MEMORY_TIME_BASE - (memory.currentRound - 1) * MEMORY_TIME_DECREASE,
             MIN_MEMORY_TIME)]_vars

\* C16: for every estimator result f <= 0 every copy of getNoteFromFreq
\* returns undefined and every copy of getNoteCents returns 0; and
\* isValidPitch is true exactly when the pitch is positive and a note is
\* present.
C16_InvalidInputNoDetection ==
  Returned("detectPitch") =>
    /\ ~calc.arg.pos =>
         /\ calc.out.note = Undefined
         /\ calc.out.noteGameMemory = Undefined
         /\ calc.out.noteGamePitch = Undefined
         /\ calc.out.cents = 0
         /\ calc.out.centsGamePitch = 0
    /\ calc.out.isValidPitch <=> (calc.arg.pos /\ calc.out.note # Undefined)

\* detectPitch has returned for a negative estimator result
C16_Witness ==
  /\ Returned("detectPitch")
  /\ ~calc.arg.pos
  /\ calc.arg.v < 0
  /\ ~calc.out.isValidPitch

\* C17: MIDIToNote(midi) is a name of NOTE_NAMES with octave floor(midi/12) - 1
\* for every integer midi, negative included, and noteToMIDI of the result is
\* midi; MIDIToNote(noteToMIDI(name, octave)) is the same name and octave.
C17_MidiInvertible ==
  /\ Returned("MIDIToNote") =>
       /\ \E i \in 1..12 : calc.out.note.name = NOTE_NAMES[i]
       /\ calc.out.note.octave = (calc.arg \div 12) - 1
       /\ calc.out.midi = calc.arg
  /\ Returned("noteToMIDI") => calc.out.note = calc.arg

\* C18: getNoteFromFreq(getFreqFromNote(n, o)) has name n in every copy and
\* octave o in the octave-resolving copies (GamePitch, GameMemory), for the
\* notes below C4 as for those above.
C18_NoteFrequencyRoundTrip ==
  Returned("getFreqFromNote") =>
    /\ calc.out.note.name = calc.arg.name
    /\ calc.out.noteGameMemory = calc.arg
    /\ calc.out.noteGamePitch = calc.arg

\* a note below C4, whose distance from C4 is negative and no multiple of 12,
\* has made the round trip
C18_Witness ==
  /\ Returned("getFreqFromNote")
  /\ calc.arg.name = "B"
  /\ calc.arg.octave = 3
  /\ calc.out.noteGamePitch.octave = 3

\* C19: for f > 0 getNoteCents(f) is 0 at a note's exact frequency, lies in
\* [-50, 50], is measured from the semitone getNoteFromFreq reports for f,
\* and is the same in the noteUtils and the GamePitch copy.
C19_CentsRelativeToNote ==
  (Returned("detectPitch") /\ calc.arg.pos) =>
    /\ (calc.arg.v % 100 = 0 /\ calc.arg.ulp = 0) => calc.out.cents = 0
    /\ calc.out.cents \in (-50)..50
    /\ \E k \in -12..12 :
         /\ calc.arg.v - calc.out.cents = 100 * k
         /\ calc.out.note.name = NOTE_NAMES[((k + 9) % 12) + 1]
    /\ calc.out.cents = calc.out.centsGamePitch

\* C20: getTuningStatus(c) is 'in-tune' iff |c| <= 10, 'sharp' iff c > 10 and
\* 'flat' iff c < -10, exactly one of the three for every c.
C20_TuningClassification ==
  Returned("getTuningStatus") =>
    /\ calc.out \in {"in-tune", "sharp", "flat"}
    /\ calc.out = "in-tune" <=> (-10 <= calc.arg /\ calc.arg <= 10)
    /\ calc.out = "sharp" <=> calc.arg > 10
    /\ calc.out = "flat" <=> calc.arg < -10
    /\ calc.arg = 12 => calc.out = "sharp"
    /\ calc.arg = -11 => calc.out = "flat"
    /\ calc.arg = 3 => calc.out = "in-tune"

\* a cents value at the tolerance has been classified in tune
C20_Witness ==
  /\ Returned("getTuningStatus")
  /\ calc.arg = -10
  /\ calc.out = "in-tune"

\* C21: when a component using usePitchDetection unmounts, no running
\* recording and no onAudioBuffer listener survive the unmount.
C21_CleanupOnUnmount ==
  screen = "unmounted" => (~mic.recording /\ mic.listeners = 0)

\* C22: when the auto-stop timer of usePitchDetection fires, recording is
\* stopped: isRecording is false, the native recording is stopped and the
\* subscription removed; and a manual stop cancels the timer.
C22_AutoStop ==
  [][/\ (\E i \in 1..Len(timers) : HomeAutoStopFire(i)) =>
          (~pd'.isRecording /\ ~mic'.recording /\ mic'.listeners = 0)
     /\ (pd.isRecording /\ \E f \in HomeHeard : toggleRecording(f)) =>
          ~HasTimer(timers', "autoStop")]_vars

\* C23: audio is captured only with microphone access granted: on every
\* mounted screen isRecording implies micAccess = "granted" and the native
\* recording runs only with access granted, so a startRecording with access
\* pending or denied starts nothing; and GameSpeed with access not granted
\* stays in "setup" with targetNotes, currentNoteIndex and noteTimes as
\* constructed.
C23_CaptureOnlyWhenGranted ==
  /\ pd.isRecording => pd.micAccess = "granted"
  /\ memory.isRecording => memory.micAccess = "granted"
  /\ pitchGame.isRecording => pitchGame.micAccess = "granted"
  /\ lesson.isRecording => lesson.micAccess = "granted"
  /\ (screen \in {"Home", "GameSpeed"} /\ mic.recording) => pd.micAccess = "granted"
  /\ (screen = "GameMemory" /\ mic.recording) => memory.micAccess = "granted"
  /\ (screen = "GamePitch" /\ mic.recording) => pitchGame.micAccess = "granted"
  /\ (screen = "LessonFlow" /\ mic.recording) => lesson.micAccess = "granted"
  /\ (screen = "GameSpeed" /\ pd.micAccess # "granted") =>
       /\ speed.gameState = "setup"
       /\ speed.targetNotes = <<>>
       /\ speed.currentNoteIndex = 0
       /\ speed.noteTimes = <<>>

\* LessonFlow is listening after a "Start Listening" pressed with access
\* denied, and nothing records
C23_Witness ==
  /\ screen = "LessonFlow"
  /\ lesson.micAccess = "denied"
  /\ lesson.lessonState = "listening"
  /\ ~lesson.isRecording
  /\ ~mic.recording

\* the detection held by c is the note named target, at most
\* LESSON_TOLERANCE cents off
InTuneOn(c, target) ==
  /\ c.detectedNote.name = target
  /\ -LESSON_TOLERANCE <= c.cents
  /\ c.cents <= LESSON_TOLERANCE

\* C24: in LessonFlow currentNoteIndex only moves from i to i + 1, on a
\* detection of notes[i] within LESSON_TOLERANCE cents while listening, or
\* back to 0 on a restart; completedNotes is true below currentNoteIndex and
\* false above it; and the lesson is "completed" only with every note
\* matched.
C24_LessonProgress ==
  [][/\ lesson'.currentNoteIndex # lesson.currentNoteIndex =>
          \/ /\ lesson'.currentNoteIndex = 0
             /\ LessonRestart
          \/ /\ lesson'.currentNoteIndex = lesson.currentNoteIndex + 1
             /\ lesson.currentNoteIndex < Len(lesson.notes)
             /\ \/ /\ lesson.lessonState = "listening"
                   /\ InTuneOn(lesson', lesson.notes[lesson.currentNoteIndex + 1])
                \/ /\ \E f \in LessonHeard(lesson.notes) \cup {NoPitch} :
                        LessonStartListening(f)
                   /\ \/ /\ lesson.detectedNote # Undefined
                         /\ InTuneOn(lesson, lesson.notes[lesson.currentNoteIndex + 1])
                      \/ InTuneOn(lesson', lesson.notes[lesson.currentNoteIndex + 1])
     /\ \A j \in 1..Len(lesson'.notes) :
          /\ j <= lesson'.currentNoteIndex => lesson'.completedNotes[j]
          /\ j > lesson'.currentNoteIndex + 1 => ~lesson'.completedNotes[j]
     /\ lesson'.lessonState = "completed" =>
          \A j \in 1..Len(lesson'.notes) : lesson'.completedNotes[j]]_vars

\* a lesson of several notes has been completed
C24_Witness ==
  /\ screen = "LessonFlow"
  /\ lesson.lessonState = "completed"
  /\ Len(lesson.notes) > 1
  /\ lesson.currentNoteIndex = Len(lesson.notes) - 1

\* the notes matched in the current lesson run
LessonMatched(c) == {c.notes[j] : j \in {i \in 1..Len(c.notes) : c.completedNotes[i]}}

\* C25: a level's achievement is awarded, and the next level unlocked by it,
\* only when every note of that level has been matched in the lesson run; a
\* single-note quick-practice lesson never awards it.
C25_AchievementNeedsWholeLevel ==
  [][/\ \A d \in lesson'.awarded \ lesson.awarded :
          LevelNotes(d) \subseteq LessonMatched(lesson')
     /\ (isLevelLocked("Medium", lesson.awarded)
           /\ ~isLevelLocked("Medium", lesson'.awarded)) =>
          LevelNotes("Easy") \subseteq LessonMatched(lesson')
     /\ Len(lesson.notes) = 1 => lesson'.awarded = lesson.awarded]_vars

\* C26: after a note is matched the lesson is in "success" before it goes on
\* to learning the next note: Ready, Learning, Listening, Success, Learning,
\* ..., Completed.
C26_SuccessBeforeNextNote ==
  [][/\ (/\ \E j \in 1..Len(lesson.notes) :
               ~lesson.completedNotes[j] /\ lesson'.completedNotes[j]
         /\ lesson'.lessonState # "completed") =>
          lesson'.lessonState = "success"
     /\ lesson'.currentNoteIndex = lesson.currentNoteIndex + 1 =>
          lesson.lessonState = "success"]_vars

\* C27: GameMemory includes the perfect-round bonus in a round's XP, and
\* GamePitch awards its perfect-game XP, only when no detection was rejected
\* since the round or game began, every step having been matched at the
\* first attempt.
C27_PerfectOnlyWithoutRejection ==
  /\ memory.perfectBonus > 0 => ~memory.rejected
  /\ pitchGame.xpAwarded => ~pitchGame.rejected

\* the documented rank progression: title, first and last XP of the range
\* (the last rank has no upper end)
RankProgression ==
  <<<<"Tone-Deaf Beginner", 0, 99>>, <<"Note Novice", 100, 249>>,
    <<"Rhythm Rookie", 250, 499>>, <<"Melody Maker", 500, 999>>,
    <<"Harmony Hero", 1000, 1999>>, <<"Pitch Perfect", 2000, 3999>>,
    <<"Tempo Master", 4000, 7999>>, <<"Scale Sage", 8000, 15999>>,
    <<"Chord Champion", 16000, 31999>>, <<"Symphony Virtuoso", 32000, 63999>>,
    <<"Musical Maestro", 64000, 127999>>, <<"Legendary Composer", 128000, 128000>>>>

TopRank == Len(RankProgression)

InDocumentedRange(i, e) ==
  RankProgression[i][2] <= e /\ (i = TopRank \/ e <= RankProgression[i][3])

DocumentedRank(e) == CHOOSE i \in 1..TopRank : InDocumentedRange(i, e)

\* C28: for a non-negative experience getTitleAndRank returns as current the
\* one rank whose documented range holds it, as next the rank after it (none
\* at the top rank), and a progress within [0, 100] that is 0 at a rank's
\* minimum and 100 at the top rank.
C28_RankTable ==
  Returned("getTitleAndRank") =>
    LET e == calc.arg
        out == calc.out
        holding == {i \in 1..TopRank : InDocumentedRange(i, e)}
    IN /\ Cardinality(holding) = 1
       /\ \A i \in holding :
            /\ out.current = RankProgression[i][1]
            /\ out.next = IF i < TopRank THEN RankProgression[i + 1][1]
                          ELSE "undefined"
            /\ out.progress.den > 0
            /\ 0 <= out.progress.num
            /\ out.progress.num <= 100 * out.progress.den
            /\ (i < TopRank /\ e = RankProgression[i][2]) => out.progress.num = 0
            /\ i = TopRank => out.progress.num = 100 * out.progress.den

\* the first XP value of the second rank has been ranked
C28_Witness ==
  /\ Returned("getTitleAndRank")
  /\ calc.arg = 100
  /\ calc.out.current = "Note Novice"
  /\ calc.out.next = "Rhythm Rookie"
  /\ calc.out.progress.num = 0

\* C29: below the top rank getExpToNextRank(e) is the smallest positive d
\* with isRankUp(e, e + d), and 0 at the top rank; isRankUp(a, b) is true
\* exactly when the rank of b is higher than the rank of a, so never when
\* b <= a.
C29_RankUpArithmetic ==
  /\ Returned("getExpToNextRank") =>
       LET e == calc.arg
           d == calc.out
       IN IF DocumentedRank(e) = TopRank THEN d = 0
          ELSE /\ d > 0
               /\ isRankUp(e, e + d)
               /\ \A k \in 1..(d - 1) : ~isRankUp(e, e + k)
  /\ Returned("isRankUp") =>
       /\ calc.out <=>
            DocumentedRank(calc.arg.newExp) > DocumentedRank(calc.arg.currentExp)
       /\ calc.arg.newExp <= calc.arg.currentExp => ~calc.out

\* two XP short of the second rank
C29_Witness ==
  /\ Returned("getExpToNextRank")
  /\ calc.arg = 98
  /\ calc.out = 2

\* C30: no step is accepted, and no hold started, on the press or timer
\* that begins a listening session, before a chunk of that session has been
\* analysed: not at LessonFlow's "Start Listening", not at GamePitch's
\* "Start Game" or "Play Again", not when GameMemory's recall begins.
C30_NoStaleDetection ==
  [][/\ lesson.lessonState = "learning" =>
          lesson'.completedNotes = lesson.completedNotes
     /\ (pitchGame.gameState # "playing" /\ pitchGame'.gameState = "playing") =>
          /\ pitchGame'.score = 0
          /\ pitchGame'.currentNoteIndex = 0
     /\ (memory.gamePhase = "memorize" /\ memory'.gamePhase = "recall") =>
          ~HasTimer(timers', "hold")]_vars

\* C31: in a terminal state, GameMemory "failed" or "roundComplete",
\* GamePitch "completed", GameSpeed "finished", recording has been stopped
\* (isRecording is false and the native recording is not running) and no hold
\* timer or step timeout is pending.
C31_TerminalQuiescent ==
  /\ (screen = "GameMemory" /\ memory.gamePhase \in {"failed", "roundComplete"}) =>
       /\ ~memory.isRecording
       /\ ~mic.recording
       /\ ~HasTimer(timers, "hold")
       /\ ~HasTimer(timers, "noteTimeout")
  /\ (screen = "GamePitch" /\ pitchGame.gameState = "completed") =>
       /\ ~pitchGame.isRecording
       /\ ~mic.recording
  /\ (screen = "GameSpeed" /\ speed.gameState = "finished") =>
       /\ ~pd.isRecording
       /\ ~mic.recording

\* C32: GameSpeed records one time per target note: while playing noteTimes
\* has one entry per note completed so far (the notes before
\* currentNoteIndex, and the current one once it has been matched), and the
\* statistics of a finished game are computed over one time per target.
C32_OneTimePerNote ==
  /\ (screen = "GameSpeed" /\ speed.gameState = "playing") =>
       /\ Len(speed.noteTimes) >= speed.currentNoteIndex
       /\ Len(speed.noteTimes) <= speed.currentNoteIndex + 1
  /\ (screen = "GameSpeed" /\ speed.gameState = "finished") =>
       /\ Len(speed.noteTimes) = Len(speed.targetNotes)
       /\ speed.gameStats.count = Len(speed.targetNotes)

\* C33: every GameMemory round is played with a melody whose length is
\* getSequenceLength of the currentRound shown during that round, rounds
\* started through "Next Round" included.
C33_MelodyFollowsRound ==
  (screen = "GameMemory" /\ memory.gamePhase \in {"memorize", "recall"}) =>
    /\ Len(memory.melodySequence) =
         Min(INITIAL_SEQUENCE_LENGTH + ((memory.currentRound - 1) \div 2),
             MAX_SEQUENCE_LENGTH)
    /\ memory.currentSequenceLength = Len(memory.melodySequence)

\* C34: once the GameMemory screen has been left with "Back" during the
\* memorize or recall phase, no timer of it starts the recording, shows the
\* time-out alert or changes the game state.
C34_NoTimerOutlivesScreen ==
  [][(screen = "unmounted" /\ memory.gamePhase \in {"memorize", "recall"}) =>
       /\ mic'.recording => mic.recording
       /\ memory'.timeUpAlert => memory.timeUpAlert
       /\ memory'.gamePhase = memory.gamePhase]_vars

\* C35: progress is a prefix: while a GamePitch game is playing
\* matchedNotes[j] is true exactly for the notes before currentNoteIndex and
\* score = currentNoteIndex; while GameMemory is in recall the length of
\* playerSequence, score and currentNoteIndex are equal; and in both
\* currentNoteIndex is at least 0 and less than the length of the sequence.
C35_ProgressIsPrefix ==
  /\ (screen = "GamePitch" /\ pitchGame.gameState = "playing") =>
       /\ \A j \in 1..Len(pitchGame.matchedNotes) :
            pitchGame.matchedNotes[j] <=> j <= pitchGame.currentNoteIndex
       /\ pitchGame.score = pitchGame.currentNoteIndex
       /\ 0 <= pitchGame.currentNoteIndex
       /\ pitchGame.currentNoteIndex < Len(pitchGame.targetNotes)
  /\ (screen = "GameMemory" /\ memory.gamePhase = "recall") =>
       /\ Len(memory.playerSequence) = memory.score
       /\ memory.score = memory.currentNoteIndex
       /\ 0 <= memory.currentNoteIndex
       /\ memory.currentNoteIndex < Len(memory.melodySequence)

\* a GamePitch game is under way with two notes matched
C35_Witness ==
  /\ screen = "GamePitch"
  /\ pitchGame.gameState = "playing"
  /\ pitchGame.currentNoteIndex = 2
  /\ pitchGame.matchedNotes[2]

\* C36: lesson XP is awarded once: for a level, however many lesson
\* completions are reported, the experience of the achievement is added at
\* most once, so the user's experience never exceeds the sum of the
\* experience of the levels reported.
C36_LessonXpOnce ==
  LET reported == {d \in Difficulties :
                     \E id \in 1..MaxCalls :
                       /\ backend.calls[id].pc # "idle"
                       /\ backend.calls[id].difficulty = d}
      RECURSIVE Total(_)
      Total(ds) == IF ds = {} THEN 0
                   ELSE LET d == CHOOSE x \in ds : TRUE
                        IN getExperienceForDifficulty(d) + Total(ds \ {d})
  IN backend.experience <= Total(reported)

\* C37: achievement completion is unique: whatever the order of the requests
\* of repeated or concurrent completeAchievement calls, there is at most one
\* user_achievements record for the user and an achievement.
C37_CompletionUnique ==
  \A d \in Difficulties : backend.user_achievements[d] <= 1

\* C38: awardXP is called at most once for a GamePitch game and at most once
\* for a GameMemory round, whatever detections arrive and timers fire at or
\* after the completion.
C38_XpOncePerSession ==
  /\ pitchGame.awardXPCalls <= 1
  /\ memory.awardXPCalls <= 1
  /\ pitchGame.xpAwarded => pitchGame.awardXPCalls = 1
  /\ (screen = "GameMemory" /\ memory.xpAwarded) => memory.awardXPCalls = 1

\* a GameMemory round has been completed and its XP awarded
C38_Witness ==
  /\ screen = "GameMemory"
  /\ memory.gamePhase = "roundComplete"
  /\ memory.xpAwarded
  /\ memory.awardXPCalls = 1
====
